---- MODULE Spec2Model ----
(***************************************************************************)
(* Temporal document store of internal/storage/convex: the document log,   *)
(* the index log and the global KV kept by SQLitePersistence, the          *)
(* transaction run by Write, the six read operations of sqliteReader, the  *)
(* key primitives, and the issue operations of ConvexStorageAdapter.       *)
(***************************************************************************)
EXTENDS Integers, Sequences, FiniteSets, TLC

\* ------------------------------------------------------------------ bounds
\* Largest timestamp a caller supplies or the clock reaches.
MaxTS == 3
\* Cap on the rows the two logs hold after a caller-built batch is staged.
MaxRows == 3
\* Longest byte string Prefix is applied to and compared with.
MaxLen == 2

\* ------------------------------------------------------------- the domains
Writers == {"w1", "w2"}
Readers == {"r1"}
Procs == Writers \cup Readers
NoProc == "none"

Ids == {"bd-1", "bd-2"}
IssuesTable == "issues"
StatusIndex == "issues_by_status"
PriorityIndex == "issues_by_priority"
TypeIndex == "issues_by_type"
ParentIndex == "issues_by_parent"
AssigneeIndex == "issues_by_assignee"
LabelIndex == "issues_by_label"
DependenciesTable == "dependencies"
DependenciesByIssue == "dependencies_by_issue"
DependenciesByDependsOn == "dependencies_by_depends_on"
StatusOpen == "open"
StatusClosed == "closed"

\* An absent value (a nil pointer, a nil slice, SQL NULL) and a present one.
Nil == <<>>
Some(x) == <<x>>

Timestamps == 0..MaxTS
\* Order (Asc Order = iota; Desc)
Asc == "ASC"
Desc == "DESC"

Min(a, b) == IF a <= b THEN a ELSE b

\* ---------------------------------------------------------- key primitives
\* []byte(s): the UTF-8 bytes of the strings the model uses.
Utf8(s) ==
    CASE s = "open" -> <<111, 112, 101, 110>>
      [] s = "closed" -> <<99, 108, 111, 115, 101, 100>>
      [] s = "bd-1" -> <<98, 100, 45, 49>>
      [] s = "bd-2" -> <<98, 100, 45, 50>>
      [] s = "a" -> <<97>>
      [] s = "ab" -> <<97, 98>>
      [] s = "b" -> <<98>>
      [] s = "a\\x00b" -> <<97, 0, 98>>
      [] OTHER -> <<>>

\* bytes.Compare(a, b) < 0: byte-lexicographic order (SQLite BLOB comparison).
LexLess(a, b) ==
    \/ /\ Len(a) < Len(b)
       /\ \A i \in 1..Len(a) : a[i] = b[i]
    \/ \E i \in 1..Min(Len(a), Len(b)) :
          /\ a[i] < b[i]
          /\ \A j \in 1..(i - 1) : a[j] = b[j]

LexLeq(a, b) == a = b \/ LexLess(a, b)

\* Interval{Start, End}: each bound Nil or Some(bytes).
Interval(start, end) == [Start |-> start, End |-> end]

\* All() Interval
All == Interval(Nil, Nil)

\* The position Prefix's loop stops at: the last byte below 0xFF, 0 if none.
LastBelowFF(p) ==
    IF \E i \in 1..Len(p) : p[i] < 255
    THEN CHOOSE i \in 1..Len(p) : p[i] < 255 /\ \A j \in (i + 1)..Len(p) : p[j] = 255
    ELSE 0

\* A Prefix that increments the last byte without carrying.
Prefix_NoCarry(p) ==
    IF Len(p) = 0 THEN All
    ELSE Interval(Some(p), Some([k \in 1..Len(p) |-> IF k = Len(p) THEN (p[k] + 1) % 256 ELSE p[k]]))

\* Prefix(prefix []byte) Interval
Prefix(p) ==
    IF Len(p) = 0 THEN All
    ELSE LET i == LastBelowFF(p)
         IN IF i = 0 THEN Interval(Some(p), Nil)
            ELSE Interval(Some(p),
                          Some([k \in 1..i |-> IF k = i THEN p[k] + 1 ELSE p[k]]))

\* IndexGenerator.StatusIndexKey
StatusIndexKey(status) == Utf8(status) \o <<0>>

\* IndexGenerator.PriorityIndexKey: big-endian uint16, then 0x00.
PriorityIndexKey(priority) ==
    <<(priority % 65536) \div 256, priority % 256, 0>>

\* IndexGenerator.TypeIndexKey, ParentIndexKey, AssigneeIndexKey, LabelIndexKey
TypeIndexKey(issueType) == Utf8(issueType) \o <<0>>
ParentIndexKey(parent) == Utf8(parent) \o <<0>>
AssigneeIndexKey(assignee) == Utf8(assignee) \o <<0>>
LabelIndexKey(label) == Utf8(label) \o <<0>>

\* ------------------------------------------------------------------- rows
\* DocumentLogEntry / a row of the documents table.
DocRow(ts, table, id, value, deleted, prev) ==
    [ts |-> ts, table_id |-> table, id |-> id, json_value |-> value,
     deleted |-> deleted, prev_ts |-> prev]

\* IndexEntry / a row of the indexes table.
IdxRow(index, ts, key, deleted, table, doc) ==
    [index_id |-> index, ts |-> ts, key |-> key, deleted |-> deleted,
     table_id |-> table, document_id |-> doc]

\* PRIMARY KEY (ts, table_id, id)
SameDocKey(a, b) == a.ts = b.ts /\ a.table_id = b.table_id /\ a.id = b.id

\* PRIMARY KEY (index_id, key, ts)
SameIdxKey(a, b) == a.index_id = b.index_id /\ a.key = b.key /\ a.ts = b.ts

\* types.Issue, the fields the store reads.
Issue(id, status, priority, issueType, parent, assignee, labels, created) ==
    [id |-> id, status |-> status, priority |-> priority, issue_type |-> issueType,
     parent |-> parent, assignee |-> assignee, labels |-> labels, created_at |-> created]

\* types.Dependency, the fields the store reads.
Dependency(id, issueID, dependsOnID) ==
    [id |-> id, issue_id |-> issueID, depends_on_id |-> dependsOnID]

\* json.Marshal / json.Unmarshal of a value: the JSON text wraps the fields.
Marshal(issue) == Some(issue)
Unmarshal(value) == value[1]

\* IndexGenerator.IndexIssue: the index entries of one issue, all at ts.
IndexIssue(issue, ts) ==
    LET entry(index, key) == IdxRow(index, ts, key, FALSE, IssuesTable, issue.id)
    IN (IF issue.status # "" THEN <<entry(StatusIndex, StatusIndexKey(issue.status))>> ELSE <<>>)
       \o <<entry(PriorityIndex, PriorityIndexKey(issue.priority))>>
       \o (IF issue.issue_type # "" THEN <<entry(TypeIndex, TypeIndexKey(issue.issue_type))>> ELSE <<>>)
       \o (IF issue.parent # "" THEN <<entry(ParentIndex, ParentIndexKey(issue.parent))>> ELSE <<>>)
       \o (IF issue.assignee # "" THEN <<entry(AssigneeIndex, AssigneeIndexKey(issue.assignee))>> ELSE <<>>)
       \o [k \in 1..Len(issue.labels) |-> entry(LabelIndex, LabelIndexKey(issue.labels[k]))]

\* ------------------------------------------------------------ SQL queries
\* ORDER BY ts DESC LIMIT 1 over a set of rows: no row, or the one of greatest ts.
TopByTs(rows) ==
    IF rows = {} THEN <<>>
    ELSE <<CHOOSE r \in rows : \A q \in rows : q.ts <= r.ts>>

\* ORDER BY ts ASC over a set of rows (rows of equal ts in an order the engine picks).
RECURSIVE OrderByTsAsc(_)
OrderByTsAsc(rows) ==
    IF rows = {} THEN <<>>
    ELSE LET first == CHOOSE r \in rows : \A q \in rows : r.ts <= q.ts
         IN <<first>> \o OrderByTsAsc(rows \ {first})

Reverse(s) == [i \in 1..Len(s) |-> s[Len(s) + 1 - i]]

\* LIMIT ?: a negative limit is no limit.
Limit(s, n) == IF n < 0 THEN s ELSE SubSeq(s, 1, Min(n, Len(s)))

\* LatestDocumentQuery
LatestDocumentQuery(docs, table, id) ==
    TopByTs({r \in docs : r.table_id = table /\ r.id = id /\ ~r.deleted})

\* The as-of query with the bound made strict.
LatestDocumentAtTSQuery_Strict(docs, table, id, ts) ==
    TopByTs({r \in docs : r.table_id = table /\ r.id = id /\ r.ts < ts})

\* LatestDocumentAtTSQuery
LatestDocumentAtTSQuery(docs, table, id, ts) ==
    TopByTs({r \in docs : r.table_id = table /\ r.id = id /\ r.ts <= ts})

\* The range query without its upper bound.
DocumentsByTableQuery_NoEnd(docs, table, start, end, order) ==
    LET asc == OrderByTsAsc({r \in docs : r.table_id = table /\ r.ts >= start})
    IN IF order = Desc THEN Reverse(asc) ELSE asc

\* The range query with the tombstones filtered out (AND deleted = 0).
DocumentsByTableQuery_LiveOnly(docs, table, start, end, order) ==
    LET asc == OrderByTsAsc({r \in docs : /\ r.table_id = table /\ r.ts >= start
                                          /\ r.ts <= end /\ ~r.deleted})
    IN IF order = Desc THEN Reverse(asc) ELSE asc

\* DocumentsByTableQuery, with the ORDER BY direction substituted.
DocumentsByTableQuery(docs, table, start, end, order) ==
    LET asc == OrderByTsAsc({r \in docs : r.table_id = table /\ r.ts >= start /\ r.ts <= end})
    IN IF order = Desc THEN Reverse(asc) ELSE asc

\* The query with MIN in place of MAX.
MaxTimestampQuery_Least(docs) ==
    IF docs = {} THEN 0 ELSE (CHOOSE r \in docs : \A q \in docs : r.ts <= q.ts).ts

\* MaxTimestampQuery: COALESCE(MAX(ts), 0)
MaxTimestampQuery(docs) ==
    IF docs = {} THEN 0 ELSE (CHOOSE r \in docs : \A q \in docs : q.ts <= r.ts).ts

\* A count of the documents that are live now: the ids whose latest version is not deleted.
DocumentCountQuery_LiveNow(docs, table) ==
    Cardinality({r.id : r \in {q \in docs : /\ q.table_id = table /\ ~q.deleted
                                            /\ \A v \in docs :
                                                  v.table_id = table /\ v.id = q.id
                                                      => v.ts <= q.ts}})

\* DocumentCountQuery: COUNT(DISTINCT id) ... WHERE table_id = ? AND deleted = 0
DocumentCountQuery(docs, table) ==
    Cardinality({r.id : r \in {q \in docs : q.table_id = table /\ ~q.deleted}})

\* The subquery of both index queries:
\* SELECT MAX(ts) FROM documents WHERE table_id = .. AND id = .. AND ts <= ? AND deleted = 0
LatestLiveTs(docs, table, id, ts) ==
    {r.ts : r \in {q \in docs : q.table_id = table /\ q.id = id /\ q.ts <= ts /\ ~q.deleted}}

IsMaxOf(t, S) == t \in S /\ \A u \in S : u <= t

\* The documents joined to one index entry by either index query.
JoinedDocuments(docs, i, ts) ==
    {d \in docs : /\ d.table_id = i.table_id
                  /\ d.id = i.document_id
                  /\ ~i.deleted
                  /\ ~d.deleted
                  /\ IsMaxOf(d.ts, LatestLiveTs(docs, i.table_id, i.document_id, ts))}

\* latest_index picking the latest entry among the non-deleted ones only.
LatestIndexRows_LiveOnly(idx, index, start, end, ts) ==
    LET rows == {e \in idx : /\ e.index_id = index
                             /\ LexLeq(start, e.key)
                             /\ (end = Nil \/ LexLess(e.key, end[1]))
                             /\ e.ts <= ts
                             /\ ~e.deleted}
    IN {e \in rows : \A f \in rows : f.key = e.key => f.ts <= e.ts}

\* latest_index of IndexScanQuery: the rows of the filter whose ROW_NUMBER() OVER
\* (PARTITION BY index_id, key ORDER BY ts DESC) is 1.
LatestIndexRows(idx, index, start, end, ts) ==
    LET rows == {e \in idx : /\ e.index_id = index
                             /\ LexLeq(start, e.key)
                             /\ (end = Nil \/ LexLess(e.key, end[1]))
                             /\ e.ts <= ts}
    IN {e \in rows : \A f \in rows : f.key = e.key => f.ts <= e.ts}

\* ORDER BY i.key ASC over (index entry, document) pairs.
RECURSIVE OrderByKeyAsc(_)
OrderByKeyAsc(pairs) ==
    IF pairs = {} THEN <<>>
    ELSE LET first == CHOOSE x \in pairs : \A y \in pairs : LexLeq(x[1].key, y[1].key)
         IN <<first>> \o OrderByKeyAsc(pairs \ {first})

\* The query with LIMIT applied to latest_index, before the join and the filters.
IndexScanQuery_LimitFirst(docs, idx, index, start, end, ts, order, limit) ==
    LET entries == OrderByKeyAsc({<<i, i>> : i \in LatestIndexRows(idx, index, start, end, ts)})
        kept == Limit(IF order = Desc THEN Reverse(entries) ELSE entries, limit)
        pairs == {<<kept[k][1], d>> : k \in 1..Len(kept), d \in docs}
        joined == {x \in pairs : x[2] \in JoinedDocuments(docs, x[1], ts)}
        asc == OrderByKeyAsc(joined)
    IN IF order = Desc THEN Reverse(asc) ELSE asc

\* IndexScanQuery: the joined (entry, document) pairs, ordered and limited.
IndexScanQuery(docs, idx, index, start, end, ts, order, limit) ==
    LET pairs == {<<i, d>> : i \in LatestIndexRows(idx, index, start, end, ts), d \in docs}
        joined == {x \in pairs : x[2] \in JoinedDocuments(docs, x[1], ts)}
        asc == OrderByKeyAsc(joined)
    IN Limit(IF order = Desc THEN Reverse(asc) ELSE asc, limit)

\* latest_index picking the latest entry among the non-deleted ones only.
LatestIndexRow_LiveOnly(idx, index, key, ts) ==
    TopByTs({e \in idx : e.index_id = index /\ e.key = key /\ e.ts <= ts /\ ~e.deleted})

\* latest_index of IndexGetQuery: ORDER BY ts DESC LIMIT 1 at the exact key.
LatestIndexRow(idx, index, key, ts) ==
    TopByTs({e \in idx : e.index_id = index /\ e.key = key /\ e.ts <= ts})

\* IndexGetQuery
IndexGetQuery(docs, idx, index, key, ts) ==
    LET latest == LatestIndexRow(idx, index, key, ts)
    IN IF latest = <<>> THEN <<>>
       ELSE TopByTs(JoinedDocuments(docs, latest[1], ts))

\* ---------------------------------------------------------- sqliteReader
\* GetDocument: Nil (no rows, or a row with Deleted set) or Some(row).
GetDocument(docs, table, id, atTS) ==
    LET rows == IF atTS # Nil THEN LatestDocumentAtTSQuery(docs, table, id, atTS[1])
                ELSE LatestDocumentQuery(docs, table, id)
    IN IF rows = <<>> THEN Nil
       ELSE IF rows[1].deleted THEN Nil ELSE Some(rows[1])

\* GetDocuments against one state of the log: id -> row, absent ids left out.
GetDocuments(docs, table, ids, atTS) ==
    [id \in {i \in ids : GetDocument(docs, table, i, atTS) # Nil} |->
        GetDocument(docs, table, id, atTS)[1]]

\* LoadDocuments
LoadDocuments(docs, table, tsRange, order) ==
    DocumentsByTableQuery(docs, table, tsRange.Start, tsRange.End, order)

\* IndexResult{Document: &doc}: the Key field is left unset.
IndexResult(pair) == [Key |-> Nil, Document |-> pair[2]]

\* IndexScan: readTS 0 stands for Now(); a nil Start is the empty key.
IndexScan(docs, idx, index, interval, readTS, order, limit, now) ==
    LET ts == IF readTS = 0 THEN now ELSE readTS
        startKey == IF interval.Start = Nil THEN <<>> ELSE interval.Start[1]
        rows == IndexScanQuery(docs, idx, index, startKey, interval.End, ts, order, limit)
    IN [k \in 1..Len(rows) |-> IndexResult(rows[k])]

\* IndexGet: Nil or Some(row).
IndexGet(docs, idx, index, key, readTS, now) ==
    LET ts == IF readTS = 0 THEN now ELSE readTS
        rows == IndexGetQuery(docs, idx, index, key, ts)
    IN IF rows = <<>> THEN Nil ELSE Some(rows[1])

\* MaxTimestamp
MaxTimestamp(docs) == MaxTimestampQuery(docs)

\* DocumentCount
DocumentCount(docs, table) == DocumentCountQuery(docs, table)

\* TimestampRange and its constructors.
TimestampRange(start, end) == [Start |-> start, End |-> end]
\* MaxTimestamp = Timestamp(1<<63 - 1), scaled to the largest integer TLC holds.
MaxTimestampValue == 2147483647
AllTime == TimestampRange(0, MaxTimestampValue)
AtOrBefore(ts) == TimestampRange(0, ts)
\* After: Start is ts + 1 in the signed arithmetic of Timestamp, which wraps around from
\* the greatest value to the least, -MaxTimestampValue - 1.
After(ts) ==
    TimestampRange(IF ts = MaxTimestampValue THEN -MaxTimestampValue - 1 ELSE ts + 1,
                   MaxTimestampValue)
\* TimestampRange.Contains
Contains(r, ts) == ts >= r.Start /\ ts <= r.End

\* ------------------------------------------------------------------ state
VARIABLES
    documents,  \* the committed rows of the documents table
    indexes,    \* the committed rows of the indexes table
    globals,    \* persistence_globals: key -> json_value
    clock,      \* the time Now() returns
    mu,         \* SQLitePersistence.mu: the writer holding it, the readers holding it
    pc,         \* where each thread is: "idle", "rlock" (blocked in RLock), "call", "tx"
    wr,         \* the Write call of each thread: its batch and its transaction
    obs,        \* the last operation that returned, with its arguments and result
    okDocs,     \* history: the documents of the batches whose Write returned nil
    okIdx,      \* history: the index entries of the batches whose Write returned nil
    rd,         \* the GetDocuments call of each reader: the ids left and the result so far
    db,         \* the store handle: whether it is open, and SQLitePersistence.fresh
    txn         \* the RunInTransaction call in progress: what its callback will return,
                \* and the store as it was when it was called

vars == <<documents, indexes, globals, clock, mu, pc, wr, obs, okDocs, okIdx, rd, db, txn>>

GlobalSchemaVersion == "schema_version"
\* const SchemaVersion = 1
SchemaVersion == 1

\* What a returned call leaves in obs: for a Write, the rows it had staged when it
\* returned and the least ts of the batch rows it had reached.
Obs(op, args, res) == [op |-> op, args |-> args, res |-> res, staged |-> 0, least |-> 0]
NoObs == Obs("none", <<>>, <<>>)

\* The frame of a thread that is in no Write call.
NoWrite ==
    [op |-> "none", args |-> <<>>, documents |-> <<>>, indexes |-> <<>>, open |-> FALSE,
     txDocs |-> {}, txIdx |-> {}, batchDocs |-> {}, batchIdx |-> {},
     preDocs |-> {}, preIdx |-> {}]

\* The frame of a reader that is in no GetDocuments call.
NoRead == [table |-> "", ids |-> <<>>, atTS |-> Nil, began |-> {}, result |-> <<>>]

\* No RunInTransaction call is in progress.
NoTxn == [active |-> FALSE, batch |-> 0, documents |-> {}, indexes |-> {}]

\* NewSQLitePersistence on a fresh path: the schema is created and schema_version stamped.
Init ==
    /\ documents = {}
    /\ indexes = {}
    /\ globals = [k \in {GlobalSchemaVersion} |-> SchemaVersion]
    /\ clock = 1
    /\ mu = [writer |-> NoProc, readers |-> {}]
    /\ pc = [p \in Procs |-> "idle"]
    /\ wr = [p \in Writers |-> NoWrite]
    /\ obs = NoObs
    /\ okDocs = {}
    /\ okIdx = {}
    /\ rd = [r \in Readers |-> NoRead]
    /\ db = [open |-> TRUE, fresh |-> TRUE, tables |-> TRUE]
    /\ txn = NoTxn

\* A Lock that never waits.
CanLock_Free == TRUE

\* sync.RWMutex: Lock waits for the writer and the readers to leave, RLock for the writer.
CanLock == mu.writer = NoProc /\ mu.readers = {}
CanRLock == mu.writer = NoProc

\* Unlock: the readers blocked in RLock are granted the lock before any later Lock.
Unlock == [writer |-> NoProc, readers |-> {r \in Readers : pc[r] = "rlock"}]

\* Now(): the wall clock.
Now == clock

\* Time passes.
Tick ==
    /\ clock < MaxTS
    /\ clock' = clock + 1
    /\ UNCHANGED <<documents, indexes, globals, mu, pc, wr, obs, okDocs, okIdx, rd, db, txn>>

\* ------------------------------------------------- the engine's transaction
\* A documents table without its primary key: no insert finds its key taken.
DocKeyTaken_Never(committed, staged, row) == FALSE

\* A row of the documents table with the primary key of row, committed or staged.
DocKeyTaken(committed, staged, row) ==
    \E r \in committed \cup staged : SameDocKey(r, row)

\* A row of the indexes table with the primary key of row, committed or staged.
IdxKeyTaken(committed, staged, row) ==
    \E r \in committed \cup staged : SameIdxKey(r, row)

\* An insert that writes through to the table at once.
TxInsert_AutoCommit(committed, staged, row) ==
    [committed |-> committed \cup {row}, staged |-> staged \cup {row}]

\* A statement prepared on tx: the inserted row is staged in the transaction.
TxInsert(committed, staged, row) ==
    [committed |-> committed, staged |-> staged \cup {row}]

\* A commit that replaces the earlier versions of the keys it writes.
TxCommit_Replace(committed, staged) ==
    {r \in committed : \A s \in staged : r.table_id # s.table_id} \cup staged

\* tx.Commit(): the staged rows join the table.
TxCommit(committed, staged) == committed \cup staged

\* A rollback that leaves the staged rows in the table.
TxRollback_Keeps(committed, staged) == committed \cup staged

\* defer tx.Rollback(): the staged rows are dropped.
TxRollback(committed, staged) == committed

\* ------------------------------------------------- SQLitePersistence.Write
\* p.mu.Lock(); tx := p.db.BeginTx(ctx, nil), for a batch the caller passes whole
\* (open = FALSE) or one whose rows the model draws as the loops reach them (open = TRUE).
WriteBegin(p, op, args, docs, idxs, open) ==
    /\ CanLock
    /\ mu' = [mu EXCEPT !.writer = p]
    /\ pc' = [pc EXCEPT ![p] = "tx"]
    /\ wr' = [wr EXCEPT ![p] =
                [op |-> op, args |-> args,
                 documents |-> docs, indexes |-> idxs, open |-> open,
                 txDocs |-> {}, txIdx |-> {},
                 batchDocs |-> {docs[i] : i \in 1..Len(docs)},
                 batchIdx |-> {idxs[i] : i \in 1..Len(idxs)},
                 preDocs |-> documents, preIdx |-> indexes]]
    /\ obs' = NoObs
    /\ UNCHANGED <<documents, indexes, globals, clock, okDocs, okIdx, rd, db, txn>>

\* The least ts of a set of rows, 0 for none.
LeastTs(rows) ==
    IF rows = {} THEN 0 ELSE (CHOOSE r \in rows : \A q \in rows : r.ts <= q.ts).ts

\* What the return of p's Write leaves in obs.
WriteObs(p, res) ==
    [op |-> wr[p].op, args |-> wr[p].args, res |-> res,
     staged |-> Cardinality(wr[p].txDocs) + Cardinality(wr[p].txIdx),
     least |-> LeastTs(wr[p].txDocs \cup wr[p].txIdx)]

\* An error return of Write that rolls back and leaves the lock with the caller.
WriteFail_KeepsLock(p, kind) ==
    /\ documents' = TxRollback(documents, wr[p].txDocs)
    /\ indexes' = TxRollback(indexes, wr[p].txIdx)
    /\ pc' = [pc EXCEPT ![p] = "idle"]
    /\ wr' = [wr EXCEPT ![p] = NoWrite]
    /\ obs' = WriteObs(p, kind)
    /\ UNCHANGED <<globals, clock, mu, okDocs, okIdx, rd, db, txn>>

\* An error return of Write: the deferred tx.Rollback() and p.mu.Unlock() run.
WriteFail(p, kind) ==
    /\ documents' = TxRollback(documents, wr[p].txDocs)
    /\ indexes' = TxRollback(indexes, wr[p].txIdx)
    /\ mu' = Unlock
    /\ pc' = [pc EXCEPT ![p] = "idle"]
    /\ wr' = [wr EXCEPT ![p] = NoWrite]
    /\ obs' = WriteObs(p, kind)
    /\ UNCHANGED <<globals, clock, okDocs, okIdx, rd, db, txn>>

\* One pass of the loop over documents: docStmt.ExecContext for row, rest still to come.
InsertDocument(p, row, rest) ==
    \/ /\ DocKeyTaken(documents, wr[p].txDocs, row)
       /\ WriteFail(p, "ConstraintViolation")
    \/ /\ ~DocKeyTaken(documents, wr[p].txDocs, row)
       /\ LET after == TxInsert(documents, wr[p].txDocs, row)
          IN /\ documents' = after.committed
             /\ wr' = [wr EXCEPT ![p].txDocs = after.staged, ![p].documents = rest,
                                ![p].batchDocs = @ \cup {row}]
       /\ UNCHANGED <<indexes, globals, clock, mu, pc, obs, okDocs, okIdx, rd, db, txn>>

\* One pass of the loop over indexes: idxStmt.ExecContext for row, rest still to come.
InsertIndex(p, row, rest) ==
    \/ /\ IdxKeyTaken(indexes, wr[p].txIdx, row)
       /\ WriteFail(p, "ConstraintViolation")
    \/ /\ ~IdxKeyTaken(indexes, wr[p].txIdx, row)
       /\ LET after == TxInsert(indexes, wr[p].txIdx, row)
          IN /\ indexes' = after.committed
             /\ wr' = [wr EXCEPT ![p].txIdx = after.staged, ![p].indexes = rest,
                                ![p].batchIdx = @ \cup {row}]
       /\ UNCHANGED <<documents, globals, clock, mu, pc, obs, okDocs, okIdx, rd, db, txn>>

\* The loops of Write over a batch passed whole.
WriteInsertDocument(p) ==
    /\ pc[p] = "tx"
    /\ ~wr[p].open
    /\ wr[p].documents # <<>>
    /\ InsertDocument(p, Head(wr[p].documents), Tail(wr[p].documents))

WriteInsertIndex(p) ==
    /\ pc[p] = "tx"
    /\ ~wr[p].open
    /\ wr[p].documents = <<>>
    /\ wr[p].indexes # <<>>
    /\ InsertIndex(p, Head(wr[p].indexes), Tail(wr[p].indexes))

\* Write refusing a batch that staged no row.
WriteCommit_RejectsEmpty(p) ==
    /\ pc[p] = "tx"
    /\ wr[p].documents = <<>>
    /\ wr[p].indexes = <<>>
    /\ IF wr[p].txDocs = {} /\ wr[p].txIdx = {}
       THEN WriteFail(p, "EmptyBatch")
       ELSE /\ documents' = TxCommit(documents, wr[p].txDocs)
            /\ indexes' = TxCommit(indexes, wr[p].txIdx)
            /\ mu' = Unlock
            /\ pc' = [pc EXCEPT ![p] = "idle"]
            /\ wr' = [wr EXCEPT ![p] = NoWrite]
            /\ obs' = WriteObs(p, "ok")
            /\ okDocs' = okDocs \cup wr[p].batchDocs
            /\ okIdx' = okIdx \cup wr[p].batchIdx
            /\ UNCHANGED <<globals, clock, rd, db, txn>>

\* tx.Commit() and the return of nil.
WriteCommit(p) ==
    /\ pc[p] = "tx"
    /\ wr[p].documents = <<>>
    /\ wr[p].indexes = <<>>
    /\ documents' = TxCommit(documents, wr[p].txDocs)
    /\ indexes' = TxCommit(indexes, wr[p].txIdx)
    /\ mu' = Unlock
    /\ pc' = [pc EXCEPT ![p] = "idle"]
    /\ wr' = [wr EXCEPT ![p] = NoWrite]
    /\ obs' = WriteObs(p, "ok")
    /\ okDocs' = okDocs \cup wr[p].batchDocs
    /\ okIdx' = okIdx \cup wr[p].batchIdx
    /\ UNCHANGED <<globals, clock, rd, db, txn>>

\* ctx is cancelled or past its deadline: BeginTx, PrepareContext, ExecContext or
\* Commit returns the error.
WriteCancelled(p) ==
    /\ pc[p] = "tx"
    /\ WriteFail(p, "Cancelled")

\* WriteGlobal with INSERT OR IGNORE: the value of a key that is there stays.
WriteGlobal_InsertOnly(p, op, key, value) ==
    /\ pc[p] = "idle"
    /\ CanLock
    /\ globals' = [k \in DOMAIN globals \cup {key} |->
                      IF k \in DOMAIN globals THEN globals[k] ELSE value]
    /\ obs' = Obs(op, <<key, value>>, "ok")
    /\ UNCHANGED <<documents, indexes, clock, mu, pc, wr, okDocs, okIdx, rd, db, txn>>

\* SQLitePersistence.WriteGlobal: SetGlobalQuery (INSERT OR REPLACE) under the lock.
WriteGlobal(p, op, key, value) ==
    /\ pc[p] = "idle"
    /\ CanLock
    /\ globals' = [k \in DOMAIN globals \cup {key} |-> IF k = key THEN value ELSE globals[k]]
    /\ obs' = Obs(op, <<key, value>>, "ok")
    /\ UNCHANGED <<documents, indexes, clock, mu, pc, wr, okDocs, okIdx, rd, db, txn>>

\* SQLitePersistence.GetGlobal: Nil for a key never written.
GetGlobal(g, key) == IF key \in DOMAIN g THEN Some(g[key]) ELSE Nil

\* ------------------------------------- Write called with a caller-built batch
\* The one JSON value caller-built batches carry.
RawValue == Marshal(Issue("bd-1", StatusOpen, 2, "", "", "", <<>>, 1))

RawKeys == {StatusIndexKey(StatusOpen), StatusIndexKey(StatusClosed)}

\* The document versions a caller-built batch may hold: live versions and tombstones.
RawDocRows ==
    {DocRow(t, IssuesTable, id, RawValue, FALSE, Nil) : t \in 1..MaxTS, id \in Ids}
    \cup {DocRow(t, IssuesTable, id, Nil, TRUE, Nil) : t \in 1..MaxTS, id \in Ids}

\* The index entries a caller-built batch may hold.
RawIdxRows ==
    {IdxRow(StatusIndex, x[1], x[2], x[3], IssuesTable, x[4]) :
        x \in (1..MaxTS) \X RawKeys \X BOOLEAN \X Ids}

\* The rows in the two logs and in p's transaction.
RowsHeld(p) ==
    Cardinality(documents) + Cardinality(indexes)
        + Cardinality(wr[p].txDocs) + Cardinality(wr[p].txIdx)

\* Write(ctx, documents, indexes) is called with a batch the caller built.
RawWrite(p) ==
    /\ pc[p] = "idle"
    /\ WriteBegin(p, "Write", <<>>, <<>>, <<>>, TRUE)

\* The loop over documents reaches the next document of that batch.
RawInsertDocument(p, row) ==
    /\ pc[p] = "tx"
    /\ wr[p].open
    /\ wr[p].batchIdx = {}
    /\ RowsHeld(p) < MaxRows
    /\ InsertDocument(p, row, <<>>)

\* The loop over indexes reaches the next index entry of that batch.
RawInsertIndex(p, row) ==
    /\ pc[p] = "tx"
    /\ wr[p].open
    /\ RowsHeld(p) < MaxRows
    /\ InsertIndex(p, row, <<>>)

\* ------------------------------------------------- ConvexStorageAdapter
\* What an issue operation leaves in obs: the issue, the status it read and the one it
\* wrote, the ts of the version it read and the ts it wrote at.
Change(id, from, to, prev, ts) ==
    [id |-> id, from |-> from, to |-> to, prev_ts |-> prev, ts |-> ts]

\* a.persistence.Write(ctx, docs, idxs) is reached: the batch is built, the lock not yet taken.
AdapterCall(p, op, args, docs, idxs) ==
    /\ pc' = [pc EXCEPT ![p] = "call"]
    /\ wr' = [wr EXCEPT ![p] = [NoWrite EXCEPT !.op = op, !.args = args,
                                               !.documents = docs, !.indexes = idxs]]
    /\ obs' = NoObs
    /\ UNCHANGED <<documents, indexes, globals, clock, mu, okDocs, okIdx, rd, db, txn>>

\* Write takes the lock and begins the transaction of an adapter's batch.
WriteLock(p) ==
    /\ pc[p] = "call"
    /\ WriteBegin(p, wr[p].op, wr[p].args, wr[p].documents, wr[p].indexes, FALSE)

\* An adapter operation returns res without calling Write.
AdapterReturn(op, args, res) ==
    /\ obs' = Obs(op, args, res)
    /\ UNCHANGED <<documents, indexes, globals, clock, mu, pc, wr, okDocs, okIdx, rd, db, txn>>

\* The thread that calls the adapter.
AdapterThreads == {"w1"}

\* The issues the adapter's operations are called for.
AdapterIds == {"bd-1"}

\* The issues CreateIssue is called with at time now: created then or just before.
NewIssues(now) ==
    {Issue(id, status, 2, "", "", "", <<>>, created) :
        id \in AdapterIds, status \in {StatusOpen, StatusClosed}, created \in {now - 1, now}}

\* CreateIssue
CreateIssue(p, issue) ==
    /\ pc[p] = "idle"
    /\ LET ts == Now
           doc == DocRow(ts, IssuesTable, issue.id, Marshal(issue), FALSE, Nil)
       IN AdapterCall(p, "CreateIssue", Change(issue.id, "", issue.status, 0, ts),
                      <<doc>>, IndexIssue(issue, ts))

\* GetIssue: the row GetDocument(ctx, "issues", id, nil) returns, Nil when it returns none.
GetIssue(docs, id) == GetDocument(docs, IssuesTable, id, Nil)

\* applyUpdates: the keys of the updates map that the model passes.
applyUpdates(issue, updates) ==
    [issue EXCEPT
        !.status = IF "status" \in DOMAIN updates THEN updates["status"] ELSE @,
        !.labels = IF "labels" \in DOMAIN updates THEN updates["labels"] ELSE @,
        !.assignee = IF "assignee" \in DOMAIN updates THEN updates["assignee"] ELSE @]

\* The updates maps UpdateIssue is called with.
Updates == {[k \in {"status"} |-> StatusClosed], [k \in {"status"} |-> StatusOpen]}

\* UpdateIssue: the document is written at ts, with PrevTS and the index entries at CreatedAt.
UpdateIssue(p, id, updates) ==
    /\ pc[p] = "idle"
    /\ CanRLock
    /\ LET row == GetIssue(documents, id)
       IN \/ /\ row = Nil
             /\ AdapterReturn("UpdateIssue", Change(id, "", "", 0, 0), "NotFound")
          \/ /\ row # Nil
             /\ LET current == applyUpdates(Unmarshal(row[1].json_value), updates)
                    ts == Now
                    oldTS == current.created_at
                    doc == DocRow(ts, IssuesTable, id, Marshal(current), FALSE, Some(oldTS))
                IN AdapterCall(p, "UpdateIssue",
                               Change(id, Unmarshal(row[1].json_value).status, current.status,
                                      row[1].ts, ts),
                               <<doc>>, IndexIssue(current, oldTS))

\* CloseIssue: the document and one issues_by_status entry, both at ts.
CloseIssue(p, id) ==
    /\ pc[p] = "idle"
    /\ CanRLock
    /\ LET row == GetIssue(documents, id)
       IN \/ /\ row = Nil
             /\ AdapterReturn("CloseIssue", Change(id, "", "", 0, 0), "NotFound")
          \/ /\ row # Nil
             /\ LET current == [Unmarshal(row[1].json_value) EXCEPT !.status = StatusClosed]
                    ts == Now
                    doc == DocRow(ts, IssuesTable, id, Marshal(current), FALSE,
                                  Some(current.created_at))
                IN AdapterCall(p, "CloseIssue",
                               Change(id, Unmarshal(row[1].json_value).status, StatusClosed,
                                      row[1].ts, ts),
                               <<doc>>,
                               <<IdxRow(StatusIndex, ts, StatusIndexKey(StatusClosed), FALSE,
                                        IssuesTable, id)>>)

\* DeleteIssue: a tombstone at ts and no index entries.
DeleteIssue(p, id) ==
    /\ pc[p] = "idle"
    /\ LET ts == Now
       IN AdapterCall(p, "DeleteIssue", Change(id, "", "", 0, ts),
                      <<DocRow(ts, IssuesTable, id, Nil, TRUE, Nil)>>, <<>>)

\* The dependencies AddDependency is called with.
Dependencies == {Dependency("dep-1", "bd-1", "bd-2")}

\* AddDependency: the document and its two index entries, all at ts; each key is the
\* bytes Prefix is applied to.
AddDependency(p, dep) ==
    /\ pc[p] = "idle"
    /\ LET ts == Now
           doc == DocRow(ts, DependenciesTable, dep.id, Marshal(dep), FALSE, Nil)
           entry(index, of) == IdxRow(index, ts, Prefix(Utf8(of) \o <<0>>).Start[1], FALSE,
                                      DependenciesTable, dep.id)
       IN AdapterCall(p, "AddDependency", Change(dep.id, "", "", 0, ts), <<doc>>,
                      <<entry(DependenciesByIssue, dep.issue_id),
                        entry(DependenciesByDependsOn, dep.depends_on_id)>>)

\* RemoveDependency: the scan at readTS 0 (now), Desc, limit 1; a tombstone for the first
\* result that is the dependency, and a return without a write when there is none.
RemoveDependency(p, issueID, dependsOnID) ==
    /\ pc[p] = "idle"
    /\ CanRLock
    /\ LET interval == Prefix(Utf8(dependsOnID) \o <<0>>)
           results == IndexScan(documents, indexes, DependenciesByDependsOn, interval,
                                0, Desc, 1, Now)
           found == {k \in 1..Len(results) :
                        LET dep == Unmarshal(results[k].Document.json_value)
                        IN dep.issue_id = issueID /\ dep.depends_on_id = dependsOnID}
       IN \/ /\ found = {}
             /\ AdapterReturn("RemoveDependency", Change("", "", "", 0, 0), "ok")
          \/ /\ found # {}
             /\ LET first == CHOOSE k \in found : \A j \in found : k <= j
                    id == Unmarshal(results[first].Document.json_value).id
                    ts == Now
                IN AdapterCall(p, "RemoveDependency", Change(id, "", "", 0, ts),
                               <<DocRow(ts, DependenciesTable, id, Nil, TRUE, Nil)>>, <<>>)

ConfigKeys == {"issue_prefix"}
ConfigValues == {"bd"}

\* SetConfig: the value quoted as a JSON string.
SetConfig(p, key, value) == WriteGlobal(p, "SetConfig", key, Some(value))

\* ----------------------------------------------------- the read operations
\* A read operation is called while a writer holds the lock: it blocks in RLock.
ReadCall(r) ==
    /\ pc[r] = "idle"
    /\ ~CanRLock
    /\ pc' = [pc EXCEPT ![r] = "rlock"]
    /\ UNCHANGED <<documents, indexes, globals, clock, mu, wr, obs, okDocs, okIdx, rd, db, txn>>

\* r.p.mu.RLock() is granted: at once to a call made while no writer holds the lock,
\* by the writer's Unlock to a call that blocked.
RLockGranted(r) ==
    \/ pc[r] = "idle" /\ CanRLock
    \/ pc[r] = "rlock" /\ r \in mu.readers

\* The query runs under the read lock and the call returns res (deferred RUnlock).
ReadReturn(r, op, args, res) ==
    /\ RLockGranted(r)
    /\ pc' = [pc EXCEPT ![r] = "idle"]
    /\ mu' = [mu EXCEPT !.readers = @ \ {r}]
    /\ obs' = Obs(op, args, res)
    /\ UNCHANGED <<documents, indexes, globals, clock, wr, okDocs, okIdx, rd, db, txn>>

\* The timestamps the readers of the model pass: 0 is an absent one (now).
ReadTimestamps == {0, 2}
OptTimestamp(t) == IF t = 0 THEN Nil ELSE Some(t)

ReadGetDocument(r, id, atTS) ==
    ReadReturn(r, "GetDocument", <<IssuesTable, id, atTS>>,
               GetDocument(documents, IssuesTable, id, atTS))

ReadLoadDocuments(r, tsRange, order) ==
    ReadReturn(r, "LoadDocuments", <<IssuesTable, tsRange, order>>,
               LoadDocuments(documents, IssuesTable, tsRange, order))

\* (interval, readTS, order, limit) of the scans of the model
Scans ==
    {<<All, 0, Asc, 100>>,
     <<Prefix(StatusIndexKey(StatusOpen)), 2, Asc, 100>>,
     <<Prefix(StatusIndexKey(StatusOpen)), 2, Desc, 1>>,
     <<All, 0, Desc, 1>>}

ReadIndexScan(r, interval, readTS, order, limit) ==
    ReadReturn(r, "IndexScan", <<StatusIndex, interval, readTS, order, limit>>,
               IndexScan(documents, indexes, StatusIndex, interval, readTS, order, limit, Now))

ReadIndexGet(r, key, readTS) ==
    ReadReturn(r, "IndexGet", <<StatusIndex, key, readTS>>,
               IndexGet(documents, indexes, StatusIndex, key, readTS, Now))

\* MaxTimestamp taken over the rows of both logs.
ReadMaxTimestamp_WithIndexes(r) ==
    ReadReturn(r, "MaxTimestamp", <<>>, MaxTimestamp(documents \cup indexes))

ReadMaxTimestamp(r) ==
    ReadReturn(r, "MaxTimestamp", <<>>, MaxTimestamp(documents))

ReadDocumentCount(r) ==
    ReadReturn(r, "DocumentCount", <<IssuesTable>>, DocumentCount(documents, IssuesTable))

\* ------------------------------------------------------ the specifications
WriteStep ==
    \E p \in Writers :
        \/ WriteCommit(p)
        \/ WriteCancelled(p)

RawStep ==
    \E p \in Writers :
        \/ RawWrite(p)
        \/ \E row \in RawDocRows : RawInsertDocument(p, row)
        \/ \E row \in RawIdxRows : RawInsertIndex(p, row)

ReadStep ==
    \E r \in Readers :
        \/ ReadCall(r)
        \/ \E id \in Ids, t \in ReadTimestamps : ReadGetDocument(r, id, OptTimestamp(t))
        \/ ReadLoadDocuments(r, AllTime, Asc)
        \/ ReadLoadDocuments(r, AtOrBefore(2), Desc)
        \/ \E s \in Scans : ReadIndexScan(r, s[1], s[2], s[3], s[4])
        \/ ReadIndexGet(r, StatusIndexKey(StatusOpen), 2)
        \/ ReadIndexGet(r, StatusIndexKey(StatusClosed), 0)
        \/ ReadMaxTimestamp(r)
        \/ ReadDocumentCount(r)

\* The reads made beside the adapter's operations: one call of each operation.
ReadStepAdapter ==
    \E r \in Readers :
        \/ ReadCall(r)
        \/ ReadGetDocument(r, "bd-1", Nil)
        \/ ReadLoadDocuments(r, AllTime, Asc)
        \/ ReadIndexScan(r, Prefix(StatusIndexKey(StatusOpen)), 0, Asc, 100)
        \/ ReadIndexGet(r, StatusIndexKey(StatusClosed), 0)
        \/ ReadMaxTimestamp(r)
        \/ ReadDocumentCount(r)

AdapterStep ==
    \E p \in AdapterThreads :
        \/ \E issue \in NewIssues(Now) : CreateIssue(p, issue)
        \/ \E id \in AdapterIds, updates \in Updates : UpdateIssue(p, id, updates)
        \/ \E id \in AdapterIds : CloseIssue(p, id)
        \/ \E id \in AdapterIds : DeleteIssue(p, id)
        \/ WriteLock(p)
        \/ WriteInsertDocument(p)
        \/ WriteInsertIndex(p)

\* Every operation of the adapter that writes, each with one input.
LogStep ==
    \E p \in AdapterThreads :
        \/ CreateIssue(p, Issue("bd-1", StatusOpen, 2, "", "", "", <<>>, Now - 1))
        \/ UpdateIssue(p, "bd-1", [k \in {"status"} |-> StatusClosed])
        \/ CloseIssue(p, "bd-1")
        \/ DeleteIssue(p, "bd-1")
        \/ \E dep \in Dependencies : AddDependency(p, dep)
        \/ \E dep \in Dependencies : RemoveDependency(p, dep.issue_id, dep.depends_on_id)
        \/ \E key \in ConfigKeys, value \in ConfigValues : SetConfig(p, key, value)
        \/ WriteLock(p)
        \/ WriteInsertDocument(p)
        \/ WriteInsertIndex(p)

\* The reads made beside them.
ReadStepLog ==
    \E r \in Readers :
        \/ ReadCall(r)
        \/ ReadGetDocument(r, "bd-1", Nil)
        \/ ReadIndexScan(r, All, 0, Asc, 100)

\* The store under batches its callers build.
Next == WriteStep \/ RawStep \/ ReadStep

Spec == Init /\ [][Next]_vars

\* The store under the issue operations of the adapter.
NextAdapter == WriteStep \/ AdapterStep \/ ReadStepAdapter \/ Tick

SpecAdapter == Init /\ [][NextAdapter]_vars

\* The two logs under every operation that writes to the store.
NextLog == WriteStep \/ LogStep \/ ReadStepLog \/ Tick

SpecLog == Init /\ [][NextLog]_vars

\* ------------------------------------------------------------ the properties
\* The rows the model's scenarios name.
LiveDoc(id, ts) == DocRow(ts, IssuesTable, id, RawValue, FALSE, Nil)
Tombstone(id, ts) == DocRow(ts, IssuesTable, id, Nil, TRUE, Nil)
StatusEntry(status, ts, deleted, id) ==
    IdxRow(StatusIndex, ts, StatusIndexKey(status), deleted, IssuesTable, id)

\* The versions of (table, id) with ts <= t, and the one of greatest ts among them.
VersionsAt(docs, table, id, t) ==
    {r \in docs : r.table_id = table /\ r.id = id /\ r.ts <= t}
GreatestVersionAt(docs, table, id, t) ==
    {r \in VersionsAt(docs, table, id, t) :
        \A q \in VersionsAt(docs, table, id, t) : q.ts <= r.ts}

\* The entries of (index, key) with ts <= t, and the one of greatest ts among them.
EntriesAt(idx, index, key, t) ==
    {e \in idx : e.index_id = index /\ e.key = key /\ e.ts <= t}
WinningEntryAt(idx, index, key, t) ==
    {e \in EntriesAt(idx, index, key, t) :
        \A f \in EntriesAt(idx, index, key, t) : f.ts <= e.ts}

\* The documents a scan of issues_by_status over the prefix of key returns at read_ts t.
ScanOfKey(docs, idx, key, t) ==
    LET scan == IndexScan(docs, idx, StatusIndex, Prefix(key), t, Asc, 100, Now)
    IN {scan[k].Document : k \in 1..Len(scan)}

\* C1: Write is all-or-nothing. Whenever a Write call returns, either it returns nil and
\* every row of its batch is in the logs, or it returns an error (ConstraintViolation
\* for a duplicate of an existing row or of a row of the same batch, Cancelled for a
\* cancelled or expired context) and the document log and the index log are exactly
\* what they were when the call began.
C1_WriteAllOrNothing ==
    [][\A p \in Writers :
          (pc[p] = "tx" /\ pc'[p] = "idle") =>
              IF obs'.res = "ok"
              THEN /\ wr[p].batchDocs \subseteq documents'
                   /\ wr[p].batchIdx \subseteq indexes'
              ELSE /\ obs'.res \in {"ConstraintViolation", "Cancelled"}
                   /\ documents' = wr[p].preDocs
                   /\ indexes' = wr[p].preIdx]_vars

\* A Write that had staged rows failed on a duplicate key, over a non-empty log.
C1_Witness ==
    /\ obs.op = "Write"
    /\ obs.res = "ConstraintViolation"
    /\ obs.staged >= 1
    /\ documents # {}

\* The result a returned read operation has on the logs docs, idx.
ReadResult(o, docs, idx) ==
    CASE o.op = "GetDocument" -> GetDocument(docs, o.args[1], o.args[2], o.args[3])
      [] o.op = "LoadDocuments" -> LoadDocuments(docs, o.args[1], o.args[2], o.args[3])
      [] o.op = "IndexScan" ->
            IndexScan(docs, idx, o.args[1], o.args[2], o.args[3], o.args[4], o.args[5], Now)
      [] o.op = "IndexGet" -> IndexGet(docs, idx, o.args[1], o.args[2], o.args[3], Now)
      [] o.op = "MaxTimestamp" -> MaxTimestamp(docs)
      [] o.op = "DocumentCount" -> DocumentCount(docs, o.args[1])
      [] OTHER -> o.res

\* C2: a read operation sees each batch wholly or not at all. Whenever a read holds the
\* read lock no transaction is open and the two tables hold exactly the rows of the
\* batches whose Write returned nil, and what GetDocument, LoadDocuments, IndexScan,
\* IndexGet, MaxTimestamp or DocumentCount returned is its result on exactly those rows:
\* no row of a batch in flight or of a failed batch, every row of a committed one.
C2_ReadsSeeWholeBatches ==
    /\ \A r \in Readers :
          RLockGranted(r) =>
              /\ \A p \in Writers : pc[p] # "tx"
              /\ documents = okDocs
              /\ indexes = okIdx
    /\ obs.res = ReadResult(obs, okDocs, okIdx)

\* A read that blocked while a Write ran holds the read lock after that Write failed
\* with part of its batch staged.
C2_Witness ==
    \E r \in Readers :
        /\ pc[r] = "rlock"
        /\ r \in mu.readers
        /\ obs.op = "Write"
        /\ obs.res = "ConstraintViolation"
        /\ obs.staged >= 1
        /\ okDocs # {}

\* C3: the document log and the index log are append-only. Every step of every
\* operation (a Write that succeeds or fails, WriteGlobal, a read, CreateIssue,
\* UpdateIssue, CloseIssue, DeleteIssue, AddDependency, RemoveDependency) leaves every row of both logs in place with
\* the same field values; a logical delete adds a tombstone row.
C3_AppendOnly ==
    [][documents \subseteq documents' /\ indexes \subseteq indexes']_vars

\* RemoveDependency returned nil after writing its tombstone, and DeleteIssue's tombstone
\* is in the log too: each beside the earlier live version of its document.
C3_Witness ==
    /\ obs.op = "RemoveDependency"
    /\ obs.res = "ok"
    /\ obs.staged = 1
    /\ \A table \in {IssuesTable, DependenciesTable} :
          \E t \in documents, d \in documents :
              /\ t.table_id = table /\ d.table_id = table
              /\ t.deleted /\ ~d.deleted /\ d.id = t.id /\ d.ts < t.ts

\* C4: for every log state, id and at_ts, GetDocument(table, id, at_ts) returns exactly
\* the version of (table, id) with the greatest ts <= at_ts when that version is not a
\* tombstone, and nothing when there is no such version or it is a tombstone.
C4_GetDocumentAsOf ==
    \A id \in Ids, t \in Timestamps :
        LET greatest == GreatestVersionAt(documents, IssuesTable, id, t)
            got == GetDocument(documents, IssuesTable, id, Some(t))
        IN IF \E r \in greatest : ~r.deleted
           THEN got # Nil /\ got[1] \in greatest
           ELSE got = Nil

\* A version at 1, a tombstone at 2 and a re-create at 3: the read at 2 returned nothing.
C4_Witness ==
    /\ {LiveDoc("bd-1", 1), Tombstone("bd-1", 2), LiveDoc("bd-1", 3)} \subseteq documents
    /\ obs.op = "GetDocument"
    /\ obs.args = <<IssuesTable, "bd-1", Some(2)>>
    /\ obs.res = Nil

\* C5: GetDocument with at_ts absent returns what GetDocument returns with at_ts at or
\* after every ts of the log: nothing when the latest version is a tombstone.
C5_NilAtTsIsLatest ==
    \A id \in Ids, t \in Timestamps :
        (\A r \in documents : r.ts <= t) =>
            GetDocument(documents, IssuesTable, id, Nil)
                = GetDocument(documents, IssuesTable, id, Some(t))

\* C6: IndexScan and IndexGet decide whether a key is live from the one entry of
\* (index_id, key) with the greatest ts <= read_ts. If there is none or it has deleted
\* set, the key yields nothing, whatever older entries say; a result for the key is the
\* document that entry points to; and when that entry is live and the latest version of
\* its document at read_ts is live, the key yields a result.
C6_IndexWinner ==
    \A key \in RawKeys, t \in 1..MaxTS :
        LET winner == WinningEntryAt(indexes, StatusIndex, key, t)
            get == IndexGet(documents, indexes, StatusIndex, key, t, Now)
            scan == ScanOfKey(documents, indexes, key, t)
            resolves(e) == \E d \in GreatestVersionAt(documents, e.table_id, e.document_id, t) :
                              ~d.deleted
        IN /\ (winner = {} \/ \E e \in winner : e.deleted) => (get = Nil /\ scan = {})
           /\ get # Nil => \E e \in winner : get[1].id = e.document_id
           /\ \A d \in scan : \E e \in winner : d.id = e.document_id
           /\ (\E e \in winner : ~e.deleted /\ resolves(e)) => (get # Nil /\ scan # {})

\* A live entry at 1 and a deleted entry of the same key at 2, the document live:
\* IndexGet at 2 returned nothing.
C6_Witness ==
    /\ StatusEntry(StatusOpen, 1, FALSE, "bd-1") \in indexes
    /\ StatusEntry(StatusOpen, 2, TRUE, "bd-1") \in indexes
    /\ LiveDoc("bd-1", 1) \in documents
    /\ obs.op = "IndexGet"
    /\ obs.args = <<StatusIndex, StatusIndexKey(StatusOpen), 2>>
    /\ obs.res = Nil

\* C7: every document IndexScan or IndexGet returns at read timestamp R for an entry
\* pointing to (table_id, document_id) is the version GetDocument(table_id,
\* document_id, at_ts = R) returns; an entry whose lookup yields nothing has no result.
C7_IndexReadsResolveAsGetDocument ==
    \A key \in RawKeys, t \in 1..MaxTS :
        LET get == IndexGet(documents, indexes, StatusIndex, key, t, Now)
            scan == ScanOfKey(documents, indexes, key, t)
        IN /\ get # Nil => GetDocument(documents, get[1].table_id, get[1].id, Some(t)) = get
           /\ \A d \in scan : GetDocument(documents, d.table_id, d.id, Some(t)) = Some(d)

\* C8: after UpdateIssue or CloseIssue changed the status of an issue from A to B at
\* T2, a scan of issues_by_status at any read_ts >= T2 at which that version is still
\* the latest does not return the issue over the prefix of A's key and returns it over
\* the prefix of B's key.
C8_StatusChangeMovesIndexKey ==
    (/\ obs.op \in {"UpdateIssue", "CloseIssue"}
     /\ obs.res = "ok"
     /\ obs.args.from # obs.args.to) =>
        \A t \in obs.args.ts..MaxTS :
            (\A d \in VersionsAt(documents, IssuesTable, obs.args.id, t) : d.ts <= obs.args.ts) =>
                /\ \A d \in ScanOfKey(documents, indexes, StatusIndexKey(obs.args.from), t) :
                      d.id # obs.args.id
                /\ \E d \in ScanOfKey(documents, indexes, StatusIndexKey(obs.args.to), t) :
                      d.id = obs.args.id

\* C9: for an issue created at T1 with status A and updated at T2 > T1 to status B, a
\* scan of issues_by_status at any read_ts in [T1, T2) returns the version of T1 over
\* the prefix of A's key and does not return the issue over the prefix of B's key.
C9_PointInTimeIndexRead ==
    (/\ obs.op \in {"UpdateIssue", "CloseIssue"}
     /\ obs.res = "ok"
     /\ obs.args.from # obs.args.to
     /\ obs.args.prev_ts < obs.args.ts
     /\ \A d \in VersionsAt(documents, IssuesTable, obs.args.id, obs.args.ts - 1) :
           d.ts = obs.args.prev_ts) =>
        \A t \in obs.args.prev_ts..(obs.args.ts - 1) :
            t >= 1 =>
                /\ \E d \in ScanOfKey(documents, indexes, StatusIndexKey(obs.args.from), t) :
                      d.id = obs.args.id /\ d.ts = obs.args.prev_ts
                /\ \A d \in ScanOfKey(documents, indexes, StatusIndexKey(obs.args.to), t) :
                      d.id # obs.args.id

\* The results of the reads at T: GetDocument and GetDocuments with at_ts = T, IndexGet
\* and IndexScan with read_ts = T, LoadDocuments over the ranges ending at or before T.
ReadsAt(docs, idx, T) ==
    <<[id \in Ids |-> GetDocument(docs, IssuesTable, id, Some(T))],
      GetDocuments(docs, IssuesTable, Ids, Some(T)),
      [key \in RawKeys |-> IndexGet(docs, idx, StatusIndex, key, T, Now)],
      [s \in ({All} \cup {Prefix(key) : key \in RawKeys}) \X {<<Asc, 100>>, <<Desc, 1>>} |->
          IndexScan(docs, idx, StatusIndex, s[1], T, s[2][1], s[2][2], Now)],
      [x \in {y \in (0..T) \X (0..T) : y[1] <= y[2]} |->
          LoadDocuments(docs, IssuesTable, TimestampRange(x[1], x[2]), Asc)]>>

\* C10: as-of reads are stable under later writes. A step that adds only rows with
\* ts > T to the logs changes the result of no read at T.
C10_AsOfReadsStable ==
    [][\A T \in 1..MaxTS :
          (/\ documents' # documents \/ indexes' # indexes
           /\ \A r \in (documents' \ documents) \cup (indexes' \ indexes) : r.ts > T) =>
              ReadsAt(documents', indexes', T) = ReadsAt(documents, indexes, T)]_vars

\* The version written at 1 was written again at 2 by a Write that returned nil.
C10_Witness ==
    /\ obs.op = "Write"
    /\ obs.res = "ok"
    /\ obs.least = 2
    /\ {LiveDoc("bd-1", 1), LiveDoc("bd-1", 2)} \subseteq documents
    /\ StatusEntry(StatusOpen, 1, FALSE, "bd-1") \in indexes

\* C11: in every reachable state no two rows of the document log share (ts, table_id, id)
\* and no two rows of the index log share (index_id, key, ts), so every (table_id, id) has
\* at most one latest version at every read_ts; and a Write returns nil only if no row of
\* its batch has the key of a row that was in the log when it began.
C11_UniqueKeys ==
    /\ [](/\ \A a, b \in documents : SameDocKey(a, b) => a = b
          /\ \A a, b \in indexes : SameIdxKey(a, b) => a = b
          /\ \A id \in Ids, t \in Timestamps :
                Cardinality(GreatestVersionAt(documents, IssuesTable, id, t)) <= 1)
    /\ [][\A p \in Writers :
            (pc[p] = "tx" /\ pc'[p] = "idle" /\ obs'.res = "ok") =>
                /\ \A r \in wr[p].batchDocs, q \in wr[p].preDocs : ~SameDocKey(q, r)
                /\ \A e \in wr[p].batchIdx, f \in wr[p].preIdx : ~SameIdxKey(f, e)]_vars

\* A Write whose first row has the key of a version in the log was rejected; the log
\* holds the live version and the tombstone of bd-1.
C11_Witness ==
    /\ obs.op = "Write"
    /\ obs.res = "ConstraintViolation"
    /\ obs.staged = 0
    /\ {LiveDoc("bd-1", 1), Tombstone("bd-1", 2)} \subseteq documents

\* ------------------------------------------------------- concurrent callers
\* The batches the concurrent callers pass to Write: no two share a row.
Batches ==
    {[documents |-> <<LiveDoc("bd-1", 1), LiveDoc("bd-2", 1)>>,
      indexes |-> <<StatusEntry(StatusOpen, 1, FALSE, "bd-1")>>],
     [documents |-> <<LiveDoc("bd-1", 2), LiveDoc("bd-2", 2)>>,
      indexes |-> <<>>],
     [documents |-> <<Tombstone("bd-2", 3)>>,
      indexes |-> <<StatusEntry(StatusClosed, 3, FALSE, "bd-1")>>]}

\* The rows of the documents of a batch.
BatchDocs(batch) == {batch.documents[k] : k \in 1..Len(batch.documents)}

\* Write(ctx, batch.documents, batch.indexes) is called; the call notes whether another
\* writer's call was in progress when it was made.
CallWrite(p, batch) ==
    /\ pc[p] = "idle"
    /\ AdapterCall(p, "Write",
                   [overlapped |-> \E q \in Writers \ {p} : pc[q] \in {"call", "tx"}],
                   batch.documents, batch.indexes)

\* GetDocuments is called: the result map is made, no lock is taken.
GetDocumentsCall(r, table, ids, atTS) ==
    /\ pc[r] = "idle"
    /\ ids # <<>>
    /\ pc' = [pc EXCEPT ![r] = "loop"]
    /\ rd' = [rd EXCEPT ![r] = [table |-> table, ids |-> ids, atTS |-> atTS,
                                began |-> documents, result |-> <<>>]]
    /\ UNCHANGED <<documents, indexes, globals, clock, mu, wr, obs, okDocs, okIdx, db, txn>>

\* One pass of the loop of GetDocuments: r.GetDocument(ctx, tableID, id, atTS) takes the
\* read lock, queries and releases it; after the last id the map is returned.
GetDocumentsNext(r) ==
    /\ pc[r] = "loop"
    /\ CanRLock
    /\ LET call == rd[r]
           id == Head(call.ids)
           doc == GetDocument(documents, call.table, id, call.atTS)
           result == IF doc = Nil THEN call.result
                     ELSE [i \in DOMAIN call.result \cup {id} |->
                              IF i = id THEN doc[1] ELSE call.result[i]]
       IN IF Tail(call.ids) # <<>>
          THEN /\ rd' = [rd EXCEPT ![r].ids = Tail(call.ids), ![r].result = result]
               /\ UNCHANGED <<pc, obs>>
          ELSE /\ rd' = [rd EXCEPT ![r] = NoRead]
               /\ pc' = [pc EXCEPT ![r] = "idle"]
               /\ obs' = Obs("GetDocuments",
                             [table |-> call.table, atTS |-> call.atTS, began |-> call.began],
                             result)
    /\ UNCHANGED <<documents, indexes, globals, clock, mu, wr, okDocs, okIdx, db, txn>>

\* The store under two writers and a reader that call it concurrently.
NextConc ==
    \/ WriteStep
    \/ \E p \in Writers :
          \/ \E batch \in Batches : CallWrite(p, batch)
          \/ WriteLock(p)
          \/ WriteInsertDocument(p)
          \/ WriteInsertIndex(p)
          \/ \E key \in ConfigKeys, value \in ConfigValues :
                WriteGlobal(p, "WriteGlobal", key, Some(value))
    \/ \E r \in Readers :
          \/ \E atTS \in {Nil, Some(2)} : GetDocumentsCall(r, IssuesTable, <<"bd-1", "bd-2">>, atTS)
          \/ GetDocumentsNext(r)
          \/ ReadCall(r)
          \/ ReadLoadDocuments(r, AllTime, Asc)
          \/ ReadMaxTimestamp(r)

SpecConc == Init /\ [][NextConc]_vars

\* C12: writers are mutually exclusive. At no time are two Write calls between Lock and
\* Unlock, the lock names the one Write that is; a WriteGlobal takes effect only while no
\* Write holds the lock; and a transaction stages a row only while no other is open, so
\* the statements of two transactions never interleave.
C12_WritersExclusive ==
    /\ [](\A p, q \in Writers : (pc[p] = "tx" /\ pc[q] = "tx") => p = q)
    /\ [](\A p \in Writers : pc[p] = "tx" => mu.writer = p)
    /\ [][(obs'.op = "WriteGlobal" /\ obs' # obs) => \A p \in Writers : pc[p] # "tx"]_vars
    /\ [][\A p \in Writers :
            (wr'[p].txDocs # wr[p].txDocs \/ wr'[p].txIdx # wr[p].txIdx) =>
                \A q \in Writers \ {p} : pc[q] # "tx" /\ wr[q].txDocs = {} /\ wr[q].txIdx = {}]_vars

\* w1 is inside its transaction with rows staged while w2 has called Write and waits for
\* the lock, after a WriteGlobal took effect.
C12_Witness ==
    /\ pc["w1"] = "tx"
    /\ wr["w1"].txDocs # {}
    /\ pc["w2"] = "call"
    /\ "issue_prefix" \in DOMAIN globals

\* The batches committed while the GetDocuments call o was running.
CommittedDuring(o) ==
    {b \in Batches : BatchDocs(b) \subseteq documents /\ BatchDocs(b) \cap o.args.began = {}}

\* C13: a GetDocuments call is point-in-time consistent. Its result is the map
\* {id -> GetDocument(table, id, at_ts)} on one state of the log: the log as it was when
\* the call began together with all the rows of some of the batches committed while it
\* ran, never with part of a batch.
C13_GetDocumentsOneSnapshot ==
    obs.op = "GetDocuments" =>
        \E some \in SUBSET CommittedDuring(obs) :
            obs.res = GetDocuments(obs.args.began \cup UNION {BatchDocs(b) : b \in some},
                                   obs.args.table, {"bd-1", "bd-2"}, obs.args.atTS)

\* The greatest ts of a set of rows, 0 for none.
GreatestTs(rows) ==
    IF rows = {} THEN 0 ELSE (CHOOSE r \in rows : \A q \in rows : q.ts <= r.ts).ts

\* C14: no committed write is lost under concurrency. In every state LoadDocuments over
\* AllTime returns exactly the document versions of the batches whose Write returned
\* nil, each once, and MaxTimestamp is the greatest ts among them: after two overlapping
\* Write calls of disjoint batches both returned nil, the rows of both batches and of the
\* batches before them.
C14_NoLostWrite ==
    LET loaded == LoadDocuments(documents, IssuesTable, AllTime, Asc)
    IN /\ {loaded[k] : k \in 1..Len(loaded)} = okDocs
       /\ Len(loaded) = Cardinality(okDocs)
       /\ MaxTimestamp(documents) = GreatestTs(okDocs)

\* A Write called while another writer's call was in progress returned nil, and the log
\* holds the rows of all three batches.
C14_Witness ==
    /\ obs.op = "Write"
    /\ obs.res = "ok"
    /\ obs.args.overlapped
    /\ \A b \in Batches : BatchDocs(b) \subseteq documents

\* C15: readers are not blocked by writers. While a Write transaction is in progress a
\* reader that is in no call can call GetDocument and have it return.
C15_ReadersNotBlocked ==
    \A r \in Readers :
        (pc[r] = "idle" /\ \E p \in Writers : pc[p] = "tx") =>
            ENABLED ReadGetDocument(r, "bd-1", Nil)

\* ------------------------------------------------- opening and closing the store
\* SQLitePersistence.Close, called while no call is in progress.
Close ==
    /\ db.open
    /\ \A p \in Procs : pc[p] = "idle"
    /\ db' = [db EXCEPT !.open = FALSE]
    /\ obs' = Obs("Close", <<>>, "ok")
    /\ UNCHANGED <<documents, indexes, globals, clock, mu, pc, wr, okDocs, okIdx, rd, txn>>

\* An os.Stat that never finds the file.
StatIsNotExist_Always(exists) == TRUE

\* _, err := os.Stat(dbPath); os.IsNotExist(err)
StatIsNotExist(exists) == ~exists

\* NewSQLitePersistence(ctx, dbPath), for the path of the store that was closed
\* (exists) or for a path that has no file. A fresh store gets the schema (CREATE ... IF
\* NOT EXISTS) and schema_version (INSERT OR REPLACE); no other store is read or written.
NewSQLitePersistence(exists) ==
    /\ ~db.open
    /\ LET fileDocs == IF exists THEN documents ELSE {}
           fileIdx == IF exists THEN indexes ELSE {}
           fileGlobals == IF exists THEN globals ELSE <<>>
           fresh == StatIsNotExist(exists)
       IN /\ documents' = fileDocs
          /\ indexes' = fileIdx
          /\ globals' = IF fresh
                        THEN [k \in DOMAIN fileGlobals \cup {GlobalSchemaVersion} |->
                                 IF k = GlobalSchemaVersion THEN SchemaVersion ELSE fileGlobals[k]]
                        ELSE fileGlobals
          /\ okDocs' = fileDocs
          /\ okIdx' = fileIdx
          /\ db' = [open |-> TRUE, fresh |-> fresh, tables |-> fresh \/ db.tables]
          /\ obs' = Obs("NewSQLitePersistence",
                        [exists |-> exists, version |-> GetGlobal(fileGlobals, GlobalSchemaVersion)],
                        "ok")
    /\ UNCHANGED <<clock, mu, pc, wr, rd, txn>>

\* NewSQLitePersistence(ctx, dbPath) for a path that has no file, failing in the fresh
\* branch after the engine created the file: at ExecContext(Schema), which leaves the
\* file without the tables, or at ExecContext(SetGlobalQuery), which leaves the tables
\* without schema_version. db.Close() and the error are returned; the file stays.
NewSQLitePersistenceFails(stage) ==
    /\ ~db.open
    /\ documents' = {}
    /\ indexes' = {}
    /\ globals' = <<>>
    /\ okDocs' = {}
    /\ okIdx' = {}
    /\ db' = [open |-> FALSE, fresh |-> TRUE, tables |-> stage = "version"]
    /\ obs' = Obs("NewSQLitePersistence", [exists |-> FALSE, version |-> Nil], "Error")
    /\ UNCHANGED <<clock, mu, pc, wr, rd, txn>>

\* The store written, closed and opened again. A store opened over a file without the
\* tables takes no call here: every statement on it fails and changes nothing.
NextOpen ==
    \/ db.open /\ db.tables /\ WriteStep
    \/ \E p \in AdapterThreads :
          /\ db.open /\ db.tables
          /\ \/ \E batch \in Batches : CallWrite(p, batch)
             \/ WriteLock(p)
             \/ WriteInsertDocument(p)
             \/ WriteInsertIndex(p)
             \/ \E version \in {SchemaVersion, SchemaVersion + 1} :
                   WriteGlobal(p, "WriteGlobal", GlobalSchemaVersion, version)
             \/ \E key \in ConfigKeys, value \in ConfigValues : SetConfig(p, key, value)
    \/ \E r \in Readers : db.open /\ db.tables /\ ReadMaxTimestamp(r)
    \/ Close
    \/ \E exists \in BOOLEAN : NewSQLitePersistence(exists)
    \/ \E stage \in {"schema", "version"} : NewSQLitePersistenceFails(stage)

SpecOpen == Init /\ [][NextOpen]_vars

\* C16: opening an existing store whose schema_version differs from SchemaVersion fails
\* with SchemaMismatch and returns no store handle.
C16_SchemaMismatchOnOpen ==
    (/\ obs.op = "NewSQLitePersistence"
     /\ obs.args.exists
     /\ obs.args.version # Some(SchemaVersion)) =>
        (obs.res = "SchemaMismatch" /\ ~db.open)

\* C17: opening a path with no file creates the empty tables, stamps schema_version =
\* SchemaVersion in the globals and reports IsFresh() = true; opening a path whose file
\* exists reports IsFresh() = false and changes neither the logs nor the globals.
C17_FreshOnlyWhenNoFile ==
    [][(~db.open /\ db'.open) =>
          IF obs'.args.exists
          THEN /\ ~db'.fresh
               /\ documents' = documents
               /\ indexes' = indexes
               /\ globals' = globals
          ELSE /\ db'.fresh
               /\ documents' = {}
               /\ indexes' = {}
               /\ globals' = [k \in {GlobalSchemaVersion} |-> SchemaVersion]]_vars

\* A store that holds rows and a config key was closed and opened again: not fresh.
C17_Witness ==
    /\ obs.op = "NewSQLitePersistence"
    /\ obs.args.exists
    /\ db.open
    /\ ~db.fresh
    /\ documents # {}
    /\ indexes # {}
    /\ "issue_prefix" \in DOMAIN globals

\* ------------------------------------------------------ the key primitives
\* The byte strings Prefix is called with: bytes 0x00, 'a', 0xFE and 0xFF.
ByteStrings == UNION {[1..n -> {0, 97, 254, 255}] : n \in 0..MaxLen}

\* The text field values index keys are made of; "a\\x00b" is the Go string "a\x00b".
Texts == {"a", "ab", "b", "a\\x00b", StatusOpen, StatusClosed}

\* The store as constructed, and the arguments of one call of a key primitive.
InitKeys ==
    /\ documents = {}
    /\ indexes = {}
    /\ globals = [k \in {GlobalSchemaVersion} |-> SchemaVersion]
    /\ clock = 1
    /\ mu = [writer |-> NoProc, readers |-> {}]
    /\ pc = [p \in Procs |-> "idle"]
    /\ wr = [p \in Writers |-> NoWrite]
    /\ okDocs = {}
    /\ okIdx = {}
    /\ rd = [r \in Readers |-> NoRead]
    /\ db = [open |-> TRUE, fresh |-> TRUE, tables |-> TRUE]
    /\ txn = NoTxn
    /\ \/ \E p \in ByteStrings, s \in ByteStrings : obs = Obs("bytes", <<p, s>>, Nil)
       \/ \E v \in Texts, w \in Texts : obs = Obs("texts", <<v, w>>, Nil)
       \/ \E a, b, u \in {-MaxTimestampValue - 1, -1, 0, 1, 2, MaxTimestampValue - 1,
                          MaxTimestampValue} :
             obs = Obs("timestamps", <<a, b, u>>, Nil)

\* Prefix(p) is called; s is the key it is compared with.
ApplyPrefix ==
    /\ obs.op = "bytes"
    /\ obs' = Obs("Prefix", obs.args, Prefix(obs.args[1]))
    /\ UNCHANGED <<documents, indexes, globals, clock, mu, pc, wr, okDocs, okIdx, rd, db, txn>>

\* The entry IndexIssue writes for the label w, and the interval SearchIssues scans for
\* the value v: Prefix([]byte(v + "\x00")).
ApplyIndexKey ==
    /\ obs.op = "texts"
    /\ obs' = Obs("LabelIndexKey", obs.args,
                  [key |-> LabelIndexKey(obs.args[2]),
                   interval |-> Prefix(Utf8(obs.args[1]) \o <<0>>)])
    /\ UNCHANGED <<documents, indexes, globals, clock, mu, pc, wr, okDocs, okIdx, rd, db, txn>>

\* TimestampRange{a, b}.Contains(u), After(a).Contains(a), After(a).Contains(u) and
\* AtOrBefore(a).Contains(a) are called.
ApplyContains ==
    /\ obs.op = "timestamps"
    /\ LET a == obs.args[1]
           b == obs.args[2]
           u == obs.args[3]
       IN obs' = Obs("Contains", obs.args,
                     [range |-> Contains(TimestampRange(a, b), u),
                      afterSelf |-> Contains(After(a), a),
                      after |-> Contains(After(a), u),
                      atOrBeforeSelf |-> Contains(AtOrBefore(a), a)])
    /\ UNCHANGED <<documents, indexes, globals, clock, mu, pc, wr, okDocs, okIdx, rd, db, txn>>

NextKeys == ApplyPrefix \/ ApplyIndexKey \/ ApplyContains

SpecKeys == InitKeys /\ [][NextKeys]_vars

\* s lies in the interval: Start <= s, and s < End when End is present.
InInterval(interval, s) ==
    /\ interval.Start = Nil \/ LexLeq(interval.Start[1], s)
    /\ interval.End = Nil \/ LexLess(s, interval.End[1])

\* s starts with p.
StartsWith(s, p) == Len(p) <= Len(s) /\ SubSeq(s, 1, Len(p)) = p

\* C18: Prefix correctness. For every non-empty byte string p and every byte string s,
\* s lies in Prefix(p) if and only if s starts with p; for p of 0xFF bytes only the
\* interval starts at p and has no upper bound; for the empty prefix it is All.
C18_PrefixCorrect ==
    obs.op = "Prefix" =>
        LET p == obs.args[1]
            s == obs.args[2]
        IN /\ Len(p) > 0 => (InInterval(obs.res, s) <=> StartsWith(s, p))
           /\ (Len(p) > 0 /\ \A k \in 1..Len(p) : p[k] = 255) => obs.res = Interval(Some(p), Nil)
           /\ Len(p) = 0 => obs.res = All

\* Prefix was applied to 0xFE 0xFF: the end is 0xFF, and the key 0xFE 0xFF lies inside.
C18_Witness ==
    /\ obs.op = "Prefix"
    /\ obs.args = <<(<<254, 255>>), (<<254, 255>>)>>
    /\ obs.res = Interval(Some(<<254, 255>>), Some(<<255>>))

\* C19: exact-value matching through the 0x00 sentinel. For any two text field values v
\* and w, the index key of w lies in Prefix(v followed by 0x00) if and only if w = v.
C19_SentinelExactMatch ==
    obs.op = "LabelIndexKey" =>
        (InInterval(obs.res.interval, obs.res.key) <=> obs.args[2] = obs.args[1])

\* The (entry, document) pairs that survive the filters of a scan of index over interval
\* at t: the entry is the latest of its key at t, is not deleted and has its key in the
\* interval, and the document is the one the scan joins to it.
Survivors(docs, idx, index, interval, t) ==
    {x \in idx \X docs :
        /\ x[1] \in WinningEntryAt(idx, index, x[1].key, t)
        /\ ~x[1].deleted
        /\ InInterval(interval, x[1].key)
        /\ x[2] \in JoinedDocuments(docs, x[1], t)}

\* The intervals of the scans C20 is checked on.
ScanIntervals ==
    {All,
     Interval(Some(StatusIndexKey(StatusClosed)), Some(StatusIndexKey(StatusOpen))),
     Interval(Some(StatusIndexKey(StatusOpen)), Nil)}

KeyBytes(result) == IF result.Key = Nil THEN <<>> ELSE result.Key[1]

\* C21: every result returned by IndexScan carries the matched key: its Key field equals
\* the key of the winning index entry that produced it, together with the latest live
\* document that entry references.
C21_ResultCarriesKey ==
    obs.op = "IndexScan" =>
        LET ts == IF obs.args[3] = 0 THEN Now ELSE obs.args[3]
            surv == Survivors(documents, indexes, obs.args[1], obs.args[2], ts)
        IN \A k \in 1..Len(obs.res) :
              \E x \in surv : /\ KeyBytes(obs.res[k]) = x[1].key
                              /\ obs.res[k].Document = x[2]

\* The interval that contains exactly the key k: from k to its successor k 0x00.
PointInterval(k) == Interval(Some(k), Some(k \o <<0>>))

\* C22: IndexGet is the point form of IndexScan: for every index, key k and read_ts,
\* IndexGet(index, k, read_ts) returns a document if and only if IndexScan over the
\* interval containing exactly k, at the same read_ts with limit >= 1, returns a result,
\* and then both return the same document version.
C22_IndexGetIsPointScan ==
    \A k \in RawKeys, t \in 0..MaxTS, s \in {<<Asc, 1>>, <<Desc, 2>>} :
        LET got == IndexGet(documents, indexes, StatusIndex, k, t, Now)
            scan == IndexScan(documents, indexes, StatusIndex, PointInterval(k), t,
                              s[1], s[2], Now)
        IN /\ got # Nil <=> Len(scan) >= 1
           /\ got # Nil => Len(scan) = 1 /\ scan[1].Document = got[1]

\* IndexGet returned a document, the index holds an entry of another key too, and the
\* scan of the point interval returns that document.
C22_Witness ==
    /\ obs.op = "IndexGet"
    /\ obs.res # Nil
    /\ \E e \in indexes : e.key # obs.args[2]
    /\ LET scan == IndexScan(documents, indexes, obs.args[1], PointInterval(obs.args[2]),
                             obs.args[3], Asc, 1, Now)
       IN Len(scan) = 1 /\ scan[1].Document = obs.res[1]

\* ---------------------------------------------------------- reads of one log
\* The batches written beside the reads: two live issues with a status entry, a version
\* of bd-1 that has no value and is not marked deleted, a document of another table, a
\* tombstone, a batch of one index entry, and the empty batch.
ReadBatches ==
    {[documents |-> <<LiveDoc("bd-1", 1), LiveDoc("bd-2", 1)>>,
      indexes |-> <<StatusEntry(StatusOpen, 1, FALSE, "bd-1")>>],
     [documents |-> <<DocRow(2, IssuesTable, "bd-1", Nil, FALSE, Some(1))>>,
      indexes |-> <<>>],
     [documents |-> <<DocRow(2, DependenciesTable, "dep-1",
                             Marshal(Dependency("dep-1", "bd-1", "bd-2")), FALSE, Nil)>>,
      indexes |-> <<>>],
     [documents |-> <<Tombstone("bd-2", 3)>>,
      indexes |-> <<>>],
     [documents |-> <<>>,
      indexes |-> <<StatusEntry(StatusClosed, 3, FALSE, "bd-2")>>],
     [documents |-> <<>>, indexes |-> <<>>]}

\* return nil, fmt.Errorf(...): what a multi-row read returns when it fails with err
\* after it collected rows (LoadDocuments and IndexScan on a Scan error or on rows.Err(),
\* GetDocuments on an error of GetDocument). held is the number of rows it held then.
FailedRead_Partial(collected, err) ==
    [rows |-> collected, err |-> err, held |-> Cardinality(DOMAIN collected)]

FailedRead(collected, err) ==
    [rows |-> Nil, err |-> err, held |-> Cardinality(DOMAIN collected)]

\* The loop over the rows of a query fails: rows.Scan on the row after the first n, or
\* rows.Err() after the last one. The deferred RUnlock runs.
ReadFails(r, op, args, rows) ==
    \E n \in 0..Len(rows) :
        ReadReturn(r, op, args, FailedRead(SubSeq(rows, 1, n), "Error"))

\* One pass of the loop of GetDocuments in which r.GetDocument returns an error: the lock
\* it took is released and GetDocuments returns nil and the error.
GetDocumentsFails(r) ==
    /\ pc[r] = "loop"
    /\ CanRLock
    /\ rd' = [rd EXCEPT ![r] = NoRead]
    /\ pc' = [pc EXCEPT ![r] = "idle"]
    /\ obs' = Obs("GetDocumentsError",
                  [table |-> rd[r].table, atTS |-> rd[r].atTS, began |-> rd[r].began],
                  FailedRead(rd[r].result, "Error"))
    /\ UNCHANGED <<documents, indexes, globals, clock, mu, wr, okDocs, okIdx, db, txn>>

\* The store under one writer and a reader whose reads may fail.
NextRead ==
    \/ WriteStep
    \/ \E p \in AdapterThreads :
          \/ \E batch \in ReadBatches : CallWrite(p, batch)
          \/ WriteLock(p)
          \/ WriteInsertDocument(p)
          \/ WriteInsertIndex(p)
    \/ \E r \in Readers :
          \/ ReadCall(r)
          \/ \E atTS \in {Nil, Some(1)} : ReadGetDocument(r, "bd-1", atTS)
          \/ GetDocumentsCall(r, IssuesTable, <<"bd-2", "bd-1">>, Nil)
          \/ GetDocumentsNext(r)
          \/ GetDocumentsFails(r)
          \/ ReadLoadDocuments(r, AllTime, Asc)
          \/ ReadLoadDocuments(r, TimestampRange(2, 3), Desc)
          \/ ReadFails(r, "LoadDocumentsError", <<IssuesTable, AllTime, Asc>>,
                       LoadDocuments(documents, IssuesTable, AllTime, Asc))
          \/ ReadIndexScan(r, All, 3, Asc, 100)
          \/ ReadFails(r, "IndexScanError", <<StatusIndex, All, 3, Asc, 100>>,
                       IndexScan(documents, indexes, StatusIndex, All, 3, Asc, 100, Now))
          \/ ReadIndexGet(r, StatusIndexKey(StatusOpen), 3)
          \/ ReadMaxTimestamp(r)

SpecRead == Init /\ [][NextRead]_vars

\* C23: a reader treats a missing value as deletion: GetDocument, GetDocuments, IndexScan
\* and IndexGet never return a document version whose value is absent, even when its
\* deleted flag is false.
C23_MissingValueIsDeletion ==
    /\ obs.op \in {"GetDocument", "IndexGet"} /\ obs.res # Nil
          => obs.res[1].json_value # Nil
    /\ obs.op = "GetDocuments"
          => \A id \in DOMAIN obs.res : obs.res[id].json_value # Nil
    /\ obs.op = "IndexScan"
          => \A k \in 1..Len(obs.res) : obs.res[k].Document.json_value # Nil

\* The tables and the ranges LoadDocuments is checked on; the last range is empty.
LoadTables == {IssuesTable, DependenciesTable}
LoadRanges ==
    {AllTime, AtOrBefore(1), TimestampRange(2, 3), TimestampRange(2, 2),
     TimestampRange(3, 2)}

\* C24: LoadDocuments(table, range, order) returns exactly the versions of that table
\* with range.Start <= ts <= range.End, each once, tombstones included and other tables
\* excluded, ordered by ts in the requested direction; with the all_time range it returns
\* every version ever committed to the table, and in ascending order the ts values of any
\* one id are strictly increasing.
C24_LoadDocumentsExact ==
    \A table \in LoadTables, range \in LoadRanges, order \in {Asc, Desc} :
        LET res == LoadDocuments(documents, table, range, order)
            rows == {res[k] : k \in 1..Len(res)}
        IN /\ rows = {d \in documents : /\ d.table_id = table
                                        /\ range.Start <= d.ts
                                        /\ d.ts <= range.End}
           /\ Len(res) = Cardinality(rows)
           /\ range = AllTime => rows = {d \in documents : d.table_id = table}
           /\ \A j, k \in 1..Len(res) :
                 j < k => /\ order = Asc => res[j].ts <= res[k].ts
                          /\ order = Desc => res[j].ts >= res[k].ts
                          /\ order = Asc /\ res[j].id = res[k].id => res[j].ts < res[k].ts

\* LoadDocuments over [2, 3], descending, returned the tombstone of bd-2 before the
\* version of bd-1 at 2 and nothing else, while the log holds earlier versions of the
\* table and a document of another table in the range.
C24_Witness ==
    /\ obs.op = "LoadDocuments"
    /\ obs.args = <<IssuesTable, TimestampRange(2, 3), Desc>>
    /\ Len(obs.res) = 2
    /\ obs.res[1] = Tombstone("bd-2", 3)
    /\ obs.res[2].id = "bd-1"
    /\ LiveDoc("bd-1", 1) \in documents
    /\ \E d \in documents : d.table_id = DependenciesTable /\ d.ts = 2

\* C25: MaxTimestamp returns the largest ts among all rows of the document log (every
\* table, tombstones included; index entries and globals do not count) and 0 when the
\* document log is empty.
C25_MaxTimestampOfDocuments ==
    obs.op = "MaxTimestamp" =>
        /\ documents = {} => obs.res = 0
        /\ documents # {} => /\ \E d \in documents : d.ts = obs.res
                             /\ \A d \in documents : d.ts <= obs.res

\* MaxTimestamp returned 2, the ts of a document of the dependencies table with no
\* issue at 2, while the index log holds an entry at 3.
C25_Witness ==
    /\ obs.op = "MaxTimestamp"
    /\ obs.res = 2
    /\ \A d \in documents : d.ts = 2 => d.table_id = DependenciesTable
    /\ \E e \in indexes : e.ts = 3

\* The keys of the global KV the model writes or reads.
GlobalKeys == {GlobalSchemaVersion} \cup ConfigKeys

\* A WriteGlobal (SetConfig is one) returns in this step.
WriteGlobalReturns == obs' # obs /\ obs'.op \in {"WriteGlobal", "SetConfig"}

\* C26: the global KV is an overwrite-in-place map. A store starts with the bootstrap
\* stamp of schema_version and nothing at any other key; after WriteGlobal(k, v),
\* GetGlobal(k) is v, no other key has changed and no row of the document or index log
\* has; and no other operation on the open store (Write among them) changes a global, so
\* GetGlobal(k) stays the value of the most recent WriteGlobal(k, .).
C26_GlobalsOverwriteInPlace ==
    /\ GetGlobal(globals, GlobalSchemaVersion) = Some(SchemaVersion)
    /\ \A k \in ConfigKeys : GetGlobal(globals, k) = Nil
    /\ [][/\ WriteGlobalReturns =>
                /\ GetGlobal(globals', obs'.args[1]) = Some(obs'.args[2])
                /\ \A k \in GlobalKeys \ {obs'.args[1]} :
                      GetGlobal(globals', k) = GetGlobal(globals, k)
                /\ documents' = documents
                /\ indexes' = indexes
          /\ ~WriteGlobalReturns /\ obs'.op # "NewSQLitePersistence" =>
                globals' = globals]_vars

\* WriteGlobal overwrote the bootstrap stamp of schema_version while the log holds
\* documents and another key is set, and GetGlobal returns the new value.
C26_Witness ==
    /\ obs.op = "WriteGlobal"
    /\ obs.args = <<GlobalSchemaVersion, SchemaVersion + 1>>
    /\ GetGlobal(globals, GlobalSchemaVersion) = Some(SchemaVersion + 1)
    /\ \E k \in ConfigKeys : GetGlobal(globals, k) # Nil
    /\ documents # {}

\* C27: timestamp ranges are inclusive on both ends and After is exclusive: for all
\* timestamps a, b, u, TimestampRange{a, b}.Contains(u) holds iff a <= u <= b; for every
\* ts, the greatest one included, After(ts).Contains(ts) is false and After(ts).Contains(u)
\* holds exactly for u > ts; AtOrBefore(ts).Contains(ts) is true.
C27_RangesInclusiveAfterExclusive ==
    obs.op = "Contains" =>
        /\ obs.res.range <=> (obs.args[1] <= obs.args[3] /\ obs.args[3] <= obs.args[2])
        /\ ~obs.res.afterSelf
        /\ obs.res.after <=> obs.args[3] > obs.args[1]
        /\ obs.res.atOrBeforeSelf

\* p's Write was called with no document and no index entry.
EmptyBatch(p) ==
    /\ pc[p] = "tx"
    /\ ~wr[p].open
    /\ wr[p].batchDocs = {} /\ wr[p].batchIdx = {}

\* C28: an empty batch commits successfully and is a no-op: a Write with no documents and
\* no index entries returns without error, unless its context was cancelled, and leaves
\* the document log, the index log and the globals unchanged.
C28_EmptyBatchIsNoOp ==
    [][\A p \in Writers :
          EmptyBatch(p) /\ pc'[p] = "idle" =>
              /\ obs'.res \in {"ok", "Cancelled"}
              /\ documents' = documents
              /\ indexes' = indexes
              /\ globals' = globals
              /\ okDocs' = okDocs /\ okIdx' = okIdx]_vars

\* A Write of no row returned nil on a store that holds documents and index entries.
C28_Witness ==
    /\ obs.op = "Write"
    /\ obs.res = "ok"
    /\ obs.staged = 0
    /\ documents # {}
    /\ indexes # {}

\* The multi-row reads that returned an error.
FailedReads == {"LoadDocumentsError", "IndexScanError", "GetDocumentsError"}

\* C29: partial-result reads are forbidden: if a multi-row read (LoadDocuments, IndexScan,
\* GetDocuments) fails after some rows or ids were already collected, it returns the
\* error and no rows at all, and it releases the lock it held: when it returns, the
\* reader holds no read lock and is in no call.
C29_NoPartialResults ==
    /\ [](obs.op \in FailedReads => obs.res.err = "Error" /\ obs.res.rows = Nil)
    /\ [][obs' # obs /\ obs'.op \in FailedReads =>
             \A r \in Readers : r \notin mu'.readers /\ pc'[r] = "idle"]_vars

\* LoadDocuments failed after it had collected two rows.
C29_Witness ==
    /\ obs.op = "LoadDocumentsError"
    /\ obs.res.held = 2
    /\ obs.res.rows = Nil

\* The operations of the adapter that create or update an issue and maintain its index
\* entries (AddLabel and RemoveLabel write through UpdateIssue).
IndexingOps == {"CreateIssue", "UpdateIssue", "CloseIssue"}

\* C30: index maintenance always writes at the current timestamp: every index entry of
\* the batch a create or an update passes to Write carries the same ts as the document
\* version of that batch, never an earlier one; so no update of an issue fails on
\* (index_id, key, ts) uniqueness.
C30_IndexEntriesAtBatchTs ==
    /\ \A p \in AdapterThreads :
          pc[p] = "call" /\ wr[p].op \in IndexingOps =>
              \A i \in 1..Len(wr[p].indexes), d \in 1..Len(wr[p].documents) :
                  wr[p].indexes[i].ts = wr[p].documents[d].ts
    /\ obs.op \in IndexingOps \ {"CreateIssue"} => obs.res # "ConstraintViolation"

\* The latest version of issue id in the log is a tombstone: the issue was deleted and
\* no version of it was written since.
DeletedLast(id) ==
    \E d \in documents :
        /\ d.table_id = IssuesTable /\ d.id = id /\ d.deleted
        /\ d \in okDocs
        /\ \A q \in documents : q.table_id = IssuesTable /\ q.id = id => q.ts <= d.ts

\* C31: after DeleteIssue(id) succeeds on an existing issue, GetIssue(id) reports not
\* found, and no scan of the status index at a later read timestamp returns that issue,
\* until a new version of it is written.
C31_DeletedIssueNotFound ==
    \A id \in AdapterIds :
        DeletedLast(id) =>
            /\ GetIssue(documents, id) = Nil
            /\ LET results == IndexScan(documents, indexes, StatusIndex, All, MaxTS, Desc,
                                        100, Now)
               IN \A k \in 1..Len(results) : results[k].Document.id # id

\* ------------------------------------------------- issues created together
\* CreateIssues: one document per issue and the entries IndexIssue generates for each,
\* all at one ts, passed to a single Write; an empty list returns nil at once.
CreateIssues(p, issues) ==
    /\ pc[p] = "idle"
    /\ LET ts == Now
           ids == [k \in 1..Len(issues) |-> issues[k].id]
           docs == [k \in 1..Len(issues) |->
                       DocRow(ts, IssuesTable, issues[k].id, Marshal(issues[k]), FALSE, Nil)]
           RECURSIVE Indexes(_)
           Indexes(k) == IF k > Len(issues) THEN <<>>
                         ELSE IndexIssue(issues[k], ts) \o Indexes(k + 1)
       IN IF issues = <<>>
          THEN AdapterReturn("CreateIssues", [ids |-> ids, ts |-> ts], "ok")
          ELSE AdapterCall(p, "CreateIssues", [ids |-> ids, ts |-> ts], docs, Indexes(1))

\* The issues the adapter is called with: bd-1 and bd-2 open at priority 2, bd-2 closed at
\* priority 1 with two labels, and bd-1 with the same label twice.
SomeIssues ==
    [plain1 |-> Issue("bd-1", StatusOpen, 2, "", "", "", <<>>, 1),
     plain2 |-> Issue("bd-2", StatusOpen, 2, "", "", "", <<>>, 1),
     other2 |-> Issue("bd-2", StatusClosed, 1, "", "", "", <<"a", "b">>, 1),
     twice1 |-> Issue("bd-1", StatusOpen, 2, "", "", "", <<"a", "a">>, 1)]

\* The lists CreateIssues is called with: ids pairwise distinct.
IssueLists ==
    {<<>>,
     <<SomeIssues.plain1, SomeIssues.plain2>>,
     <<SomeIssues.plain1, SomeIssues.other2>>}

\* RunInTransaction is entered: an empty batch, and fn is called with a convexTransaction
\* over it. The model keeps what the log held then.
RunInTransaction(p) ==
    /\ pc[p] = "idle"
    /\ ~txn.active
    /\ txn' = [active |-> TRUE, batch |-> 0, documents |-> documents, indexes |-> indexes]
    /\ obs' = NoObs
    /\ UNCHANGED <<documents, indexes, globals, clock, mu, pc, wr, okDocs, okIdx, rd, db>>

\* fn returns err. Every method of convexTransaction calls the adapter's own method, so
\* the operations of fn are the adapter's actions and the batch is as long as it was: on
\* an error RunInTransaction returns it, on nil it calls Write only for a non-empty batch.
RunInTransactionReturn(p, err) ==
    /\ pc[p] = "idle"
    /\ txn.active
    /\ txn' = NoTxn
    /\ obs' = Obs("RunInTransaction",
                  [documents |-> txn.documents, indexes |-> txn.indexes,
                   batch |-> txn.batch],
                  IF err THEN "Error" ELSE "ok")
    /\ UNCHANGED <<documents, indexes, globals, clock, mu, pc, wr, okDocs, okIdx, rd, db>>

\* The store under the adapter's operations on two issues.
NextIssues ==
    \/ WriteStep
    \/ Tick
    \/ \E p \in AdapterThreads :
          \/ \E issues \in IssueLists : CreateIssues(p, issues)
          \/ \E name \in DOMAIN SomeIssues : CreateIssue(p, SomeIssues[name])
          \/ \E id \in {"bd-1", "bd-2"} : DeleteIssue(p, id)
          \/ RunInTransaction(p)
          \/ \E err \in BOOLEAN : RunInTransactionReturn(p, err)
          \/ WriteLock(p)
          \/ WriteInsertDocument(p)
          \/ WriteInsertIndex(p)

SpecIssues == Init /\ [][NextIssues]_vars

\* C32: CreateIssues with a non-empty list of issues of pairwise distinct ids, whatever
\* their statuses, priorities and labels, equal ones included, passes to one Write a
\* batch of one document per issue and of index entries that do not collide with one
\* another on (index_id, key, ts); and when it returns nil every listed issue is
\* retrievable by GetIssue.
C32_CreateIssuesCommits ==
    /\ \A p \in AdapterThreads :
          pc[p] = "call" /\ wr[p].op = "CreateIssues" =>
              /\ Len(wr[p].documents) = Len(wr[p].args.ids)
              /\ \A i, j \in 1..Len(wr[p].indexes) :
                    i # j => ~SameIdxKey(wr[p].indexes[i], wr[p].indexes[j])
    /\ obs.op = "CreateIssues" /\ obs.res = "ok" =>
          \A k \in 1..Len(obs.args.ids) : GetIssue(documents, obs.args.ids[k]) # Nil

\* C33: RunInTransaction is atomic over the operations of its callback: none of them is
\* in the log before the callback returns, when the callback returns an error the log is
\* what it was when RunInTransaction was entered: the operations reach the log only
\* together, by the one Write of the transaction's batch after the callback returned nil.
C33_TransactionIsAtomic ==
    /\ txn.active => documents = txn.documents /\ indexes = txn.indexes
    /\ obs.op = "RunInTransaction" /\ obs.res = "Error" =>
          documents = obs.args.documents /\ indexes = obs.args.indexes

\* ------------------------------------------------- searches and statistics
\* SearchIssues with a status filter only: the scan of issues_by_status over the prefix of
\* the status, newest 100, the values that do not unmarshal skipped, then filterIssues.
SearchIssues(docs, idx, status, now) ==
    LET results == IndexScan(docs, idx, StatusIndex, Prefix(StatusIndexKey(status)), 0,
                             Desc, 100, now)
        issues == [k \in 1..Len(results) |-> results[k].Document.json_value]
        decoded == SelectSeq(issues, LAMBDA v : v # Nil)
    IN SelectSeq([k \in 1..Len(decoded) |-> Unmarshal(decoded[k])],
                 LAMBDA issue : issue.status = status)

\* GetStatistics: the open issues are counted by the length of the status scan, the total
\* by DocumentCount.
GetStatistics(docs, idx, now) ==
    [TotalIssues |-> DocumentCount(docs, IssuesTable),
     OpenIssues |-> Len(IndexScan(docs, idx, StatusIndex, Prefix(StatusIndexKey(StatusOpen)),
                                  0, Desc, 1000, now))]

\* The live issues of a status: the ids whose latest version is not deleted and has it.
LiveIssues(status) ==
    {id \in {SomeIssues[n].id : n \in DOMAIN SomeIssues} :
        /\ GetIssue(documents, id) # Nil
        /\ Unmarshal(GetIssue(documents, id)[1].json_value).status = status}

C35_PrevTsChain ==
    \A d \in documents :
        d.table_id = IssuesTable /\ d.prev_ts # Nil =>
            /\ d.prev_ts[1] < d.ts
            /\ \E q \in documents :
                  /\ q.table_id = d.table_id /\ q.id = d.id /\ q.ts = d.prev_ts[1]
            /\ \A q \in documents :
                  q.table_id = d.table_id /\ q.id = d.id /\ q.ts < d.ts => q.ts <= d.prev_ts[1]

\* The ids of a table that have at least one version that is not deleted.
EverLive(docs, table) == {d.id : d \in {q \in docs : q.table_id = table /\ ~q.deleted}}

\* The ids of a table that are live now: the latest version is not deleted.
LiveNow(docs, table) ==
    {d.id : d \in {q \in docs : /\ q.table_id = table /\ ~q.deleted
                                /\ \A v \in docs :
                                      v.table_id = table /\ v.id = q.id => v.ts <= q.ts}}

\* C36: DocumentCount(table) returns the number of distinct ids of the table that have at
\* least one non-deleted version in the log; that number is never smaller than the number
\* of documents that are live when it returns, and it never decreases.
C36_DocumentCountMonotonic ==
    /\ [][obs' # obs /\ obs'.op = "DocumentCount" =>
             /\ obs'.res = Cardinality(EverLive(documents', IssuesTable))
             /\ obs'.res >= Cardinality(LiveNow(documents', IssuesTable))]_vars
    /\ [][DocumentCount(documents', IssuesTable) >= DocumentCount(documents, IssuesTable)]_vars

\* DocumentCount returned 2 for a table of two issues of which one was deleted since: one
\* document is live, the count is still 2.
C36_Witness ==
    /\ obs.op = "DocumentCount"
    /\ obs.res = 2
    /\ Cardinality(LiveNow(documents, IssuesTable)) = 1

\* C38: the index entries IndexIssue generates for one issue at one ts are pairwise
\* distinct on (index_id, key, ts), whatever the labels of the issue are: the batch
\* CreateIssue passes to Write holds no two entries with the same primary key.
C38_IndexIssueEntriesDistinct ==
    \A p \in AdapterThreads :
        pc[p] = "call" /\ wr[p].op = "CreateIssue" =>
            \A i, j \in 1..Len(wr[p].indexes) :
                i # j => ~SameIdxKey(wr[p].indexes[i], wr[p].indexes[j])

\* C39: bootstrap is robust to failed attempts: after any sequence of open attempts on
\* one path, those that failed after the file was created but before the schema was
\* created or schema_version was stamped included, every open that returns a store finds
\* the tables present and schema_version stamped.
C39_OpenAfterFailedAttempt ==
    obs.op = "NewSQLitePersistence" /\ obs.res = "ok" =>
        /\ db.tables
        /\ GetGlobal(globals, GlobalSchemaVersion) # Nil

\* ------------------------------------------------- callers under fair scheduling
\* sqliteReader / SQLitePersistence.GetGlobal: the query under the read lock.
ReadGetGlobal(r, key) ==
    ReadReturn(r, "GetGlobal", <<key>>, GetGlobal(globals, key))

\* The read operations a reader calls, the failing ones included: each takes the read
\* lock, or was granted it while blocked, and returns with the deferred RUnlock.
ReaderReturns(r) ==
    \/ ReadLoadDocuments(r, AllTime, Asc)
    \/ ReadFails(r, "LoadDocumentsError", <<IssuesTable, AllTime, Asc>>,
                 LoadDocuments(documents, IssuesTable, AllTime, Asc))
    \/ ReadGetGlobal(r, GlobalSchemaVersion)

\* The store under two writers and a reader: writes that commit, fail on a constraint
\* or are cancelled, WriteGlobal, and reads that return or fail.
NextFair ==
    \/ WriteStep
    \/ \E p \in Writers :
          \/ \E batch \in Batches : CallWrite(p, batch)
          \/ WriteLock(p)
          \/ WriteInsertDocument(p)
          \/ WriteInsertIndex(p)
          \/ \E key \in ConfigKeys, value \in ConfigValues :
                WriteGlobal(p, "WriteGlobal", key, Some(value))
    \/ \E r \in Readers :
          \/ ReadCall(r)
          \/ ReaderReturns(r)

\* The scheduling the Go runtime gives the callers. A goroutine that runs goes on
\* running: a Write that holds the lock takes its next step, a reader that was granted
\* the read lock returns (weak fairness). A goroutine blocked in Lock is not passed over
\* for ever: sync.Mutex hands the lock to a waiter that starves, and sync.RWMutex keeps
\* new readers out while a writer waits (strong fairness of taking the lock).
Fairness ==
    /\ \A p \in Writers :
          /\ SF_vars(WriteLock(p))
          /\ WF_vars(WriteInsertDocument(p) \/ WriteInsertIndex(p)
                        \/ WriteCommit(p) \/ WriteCancelled(p))
    /\ \A r \in Readers : WF_vars(pc[r] = "rlock" /\ ReaderReturns(r))

SpecFair == Init /\ [][NextFair]_vars /\ Fairness

\* C37: every store operation releases the lock on every path, error returns included:
\* the lock is held only by a Write between Lock and its return and by readers that have
\* not returned, so no caller that is in no call holds it; and under fair scheduling
\* every Write and every read that was called returns, and a held lock is released, so a
\* WriteGlobal or GetGlobal that waits for it proceeds.
C37_LockReleasedAndCallsReturn ==
    /\ [](/\ \A p \in Writers : mu.writer = p => pc[p] = "tx"
          /\ \A r \in Readers : r \in mu.readers => pc[r] = "rlock"
          /\ mu.writer \in Writers \cup {NoProc})
    /\ \A p \in Procs : (pc[p] # "idle") ~> (pc[p] = "idle")
    /\ (~CanLock) ~> CanLock

\* A Write failed on a constraint and returned with the lock free, while the other
\* writer's Write waits for the lock.
C37_Witness ==
    /\ obs.op = "Write"
    /\ obs.res = "ConstraintViolation"
    /\ CanLock
    /\ \E q \in Writers : pc[q] = "call"

====
